---- MODULE Spec2Model ----
(***************************************************************************)
(* State-machine model of the AML library of DynamicTablesPkg (AmlLib):    *)
(* the definition-block parser, the node tree and its editing primitives,  *)
(* the size/PkgLen propagation, the serializer and the table checksum.     *)
(*                                                                         *)
(* Memory is a sequence of bytes; a C pointer into it is a 0-based offset. *)
(* The node heap is a function from node identifiers to node records; the  *)
(* LIST_ENTRY rings are explicit forward/backward links.  The C functions  *)
(* are operators that take the heap and return a record holding the        *)
(* EFI_STATUS, the new heap and the out-parameters.                        *)
(***************************************************************************)
EXTENDS Integers, Sequences, FiniteSets, TLC

(***************************************************************************)
(* Machine integers and bytes                                              *)
(***************************************************************************)
\* A UINT32 or UINT64 value v is held as the integer v when v is small and as
\* v - 2^w when a subtraction wrapped it to within reach of 2^w, so + and -
\* are the machine's modular operations on every value the model reaches and
\* MAX_UINT32, MAX_UINT64 are both held as -1.  ULt, ULe, UGt are the unsigned
\* comparisons of the machine on that representation.
MAX_UINT8 == 255
MAX_UINT16 == 65535
MAX_UINT32 == -1
MAX_UINT64 == -1

ULt(a, b) == IF (a < 0) = (b < 0) THEN a < b ELSE b < 0
UGt(a, b) == ULt(b, a)
ULe(a, b) == ~ULt(b, a)
UGe(a, b) == ~ULt(a, b)

U8(x) == x % (MAX_UINT8 + 1)

\* A local variable of a C function: the value v is computed once and F is
\* the rest of the function, which reads it.
Let(v, F(_)) == F(v)

Pow2(n) == 2 ^ n

\* a & b for non-negative a and b: the sum of the powers of two whose bit
\* is set in both.
RECURSIVE SumPow2(_)
SumPow2(Bits) ==
  IF Bits = {} THEN 0
  ELSE Pow2(CHOOSE i \in Bits : TRUE) + SumPow2(Bits \ {CHOOSE i \in Bits : TRUE})

BitAnd(a, b) ==
  SumPow2({i \in 0..30 : (a \div Pow2(i)) % 2 = 1 /\ (b \div Pow2(i)) % 2 = 1})

\* *(Buffer + p) on a memory image m.  An address past the image is unmapped
\* memory; the model gives it the byte 0x02, which is no AML opcode.
ReadByte(m, p) == IF p >= 0 /\ p < Len(m) THEN m[p + 1] ELSE 2

\* The Size bytes at address p.
ReadBytes(m, p, Size) ==
  IF p >= 0 /\ p + Size <= Len(m) THEN SubSeq(m, p + 1, p + Size)
  ELSE [i \in 1..Size |-> ReadByte(m, p + i - 1)]

\* The sum of the bytes of s, added up by halves.
RECURSIVE SumBytes(_)
SumBytes(s) ==
  IF s = <<>> THEN 0
  ELSE IF Len(s) = 1 THEN s[1]
  ELSE SumBytes(SubSeq(s, 1, Len(s) \div 2))
       + SumBytes(SubSeq(s, (Len(s) \div 2) + 1, Len(s)))

\* Little-endian value of a byte sequence.
RECURSIVE LeValue(_)
LeValue(s) == IF s = <<>> THEN 0 ELSE s[1] + 256 * LeValue(Tail(s))

\* Little-endian value of a 32 or 64 bit field in the representation above:
\* a field whose top bit is set is held as its value minus 2^w.
LeResidue(s) ==
  IF s # <<>> /\ s[Len(s)] >= 128
  THEN -1 - LeValue([i \in 1..Len(s) |-> 255 - s[i]])
  ELSE LeValue(s)

\* Little-endian encoding of v on n bytes.
RECURSIVE LeBytes(_, _)
LeBytes(v, n) == IF n = 0 THEN <<>> ELSE <<v % 256>> \o LeBytes(v \div 256, n - 1)

(***************************************************************************)
(* EFI_STATUS                                                              *)
(***************************************************************************)
EFI_SUCCESS == "EFI_SUCCESS"
EFI_INVALID_PARAMETER == "EFI_INVALID_PARAMETER"
EFI_NOT_FOUND == "EFI_NOT_FOUND"
EFI_OUT_OF_RESOURCES == "EFI_OUT_OF_RESOURCES"
EFI_ABORTED == "EFI_ABORTED"
EFI_UNSUPPORTED == "EFI_UNSUPPORTED"
EFI_BUFFER_TOO_SMALL == "EFI_BUFFER_TOO_SMALL"
EFI_ERROR(Status) == Status # EFI_SUCCESS

(***************************************************************************)
(* Aml.h: parse formats and attributes                                     *)
(***************************************************************************)
AML_NONE == 0
AML_UINT8 == 1
AML_UINT16 == 2
AML_UINT32 == 3
AML_UINT64 == 4
AML_NAME == 5
AML_STRING == 6
AML_OBJECT == 7

AML_NAME_SEG_SIZE == 4

AML_HAS_PKG_LENGTH == 1
AML_IS_NAME_CHAR == 2
AML_HAS_CHILD_OBJ == 4
AML_HAS_BYTE_LIST == 8
AML_IN_NAMESPACE == 65536

(***************************************************************************)
(* AmlDefines.h: node data types and parse indexes                         *)
(***************************************************************************)
EFI_ACPI_NODE_TYPE_NONE == 0
EFI_ACPI_NODE_TYPE_NAME_STRING == 5
EFI_ACPI_NODE_TYPE_STRING == 6
EFI_ACPI_NODE_TYPE_CHILD == 7
EFI_ACPI_NODE_TYPE_UINT == 8
EFI_ACPI_NODE_TYPE_RAW == 9
EFI_ACPI_NODE_TYPE_RESOURCE_DATA == 10
EFI_ACPI_NODE_TYPE_FIELD_ELEMENT == 11

AML_OP_PARSE_INDEX_GET_TERM1 == 0
AML_OP_PARSE_INDEX_MAX == 6
AML_OP_PARSE_INDEX_GET_SIZE == MAX_UINT8

(***************************************************************************)
(* Opcodes used by name in the library                                     *)
(***************************************************************************)
AML_ZERO_OP == 0
AML_ONE_OP == 1
AML_BYTE_PREFIX == 10
AML_WORD_PREFIX == 11
AML_DWORD_PREFIX == 12
AML_STRING_PREFIX == 13
AML_QWORD_PREFIX == 14
AML_BUFFER_OP == 17
AML_PACKAGE_OP == 18
AML_VAR_PACKAGE_OP == 19
AML_DUAL_NAME_PREFIX == 46
AML_MULTI_NAME_PREFIX == 47
AML_EXT_OP == 91
AML_ROOT_CHAR == 92
AML_PARENT_PREFIX_CHAR == 94
AML_ONES_OP == 255

(***************************************************************************)
(* Aml.c: the grammar table mAmlByteEncoding                               *)
(***************************************************************************)
\* Format[6]: the listed types, padded with AML_NONE.
Fmt(f) == [i \in 1..AML_OP_PARSE_INDEX_MAX |-> IF i <= Len(f) THEN f[i] ELSE AML_NONE]

Enc(Op, Sub, f, Attr) ==
  [OpCode |-> Op, SubOpCode |-> Sub, MaxIndex |-> Len(f), Format |-> Fmt(f),
   Attribute |-> Attr]

\* Entries OpCode First..Last, all with the same format and attribute.
EncRange(First, Last, f, Attr) ==
  [i \in 1..(Last - First + 1) |-> Enc(First + i - 1, 0, f, Attr)]

O1 == <<AML_OBJECT>>
O2 == <<AML_OBJECT, AML_OBJECT>>
O3 == <<AML_OBJECT, AML_OBJECT, AML_OBJECT>>
O4 == <<AML_OBJECT, AML_OBJECT, AML_OBJECT, AML_OBJECT>>
OON == <<AML_OBJECT, AML_OBJECT, AML_NAME>>
PkgChild == AML_HAS_PKG_LENGTH + AML_HAS_CHILD_OBJ
PkgChildNs == AML_HAS_PKG_LENGTH + AML_HAS_CHILD_OBJ + AML_IN_NAMESPACE
PkgBytes == AML_HAS_PKG_LENGTH + AML_HAS_BYTE_LIST

mAmlByteEncoding ==
  <<Enc(0, 0, <<>>, 0), Enc(1, 0, <<>>, 0),
    Enc(6, 0, <<AML_NAME, AML_NAME>>, AML_IN_NAMESPACE),
    Enc(8, 0, <<AML_NAME, AML_OBJECT>>, AML_IN_NAMESPACE),
    Enc(10, 0, <<AML_UINT8>>, 0), Enc(11, 0, <<AML_UINT16>>, 0),
    Enc(12, 0, <<AML_UINT32>>, 0), Enc(13, 0, <<AML_STRING>>, 0),
    Enc(14, 0, <<AML_UINT64>>, 0),
    Enc(16, 0, <<AML_NAME>>, PkgChildNs),
    Enc(17, 0, O1, PkgBytes),
    Enc(18, 0, <<AML_UINT8>>, PkgChild),
    Enc(19, 0, O1, PkgChild),
    Enc(20, 0, <<AML_NAME, AML_UINT8>>, PkgChildNs),
    Enc(21, 0, <<AML_NAME, AML_UINT8, AML_UINT8>>, AML_IN_NAMESPACE),
    Enc(46, 0, <<>>, AML_IS_NAME_CHAR), Enc(47, 0, <<>>, AML_IS_NAME_CHAR)>>
  \o EncRange(65, 90, <<>>, AML_IS_NAME_CHAR)
  \o <<Enc(91, 1, <<AML_NAME, AML_UINT8>>, AML_IN_NAMESPACE),
       Enc(91, 2, <<AML_NAME>>, AML_IN_NAMESPACE),
       Enc(91, 18, O2, 0), Enc(91, 19, <<AML_OBJECT, AML_OBJECT, AML_OBJECT, AML_NAME>>, 0),
       Enc(91, 31, <<AML_OBJECT, AML_OBJECT, AML_OBJECT, AML_OBJECT, AML_OBJECT, AML_OBJECT>>, 0),
       Enc(91, 32, <<AML_NAME, AML_OBJECT>>, 0),
       Enc(91, 33, O1, 0), Enc(91, 34, O1, 0),
       Enc(91, 35, <<AML_OBJECT, AML_UINT16>>, 0),
       Enc(91, 36, O1, 0), Enc(91, 37, O2, 0), Enc(91, 38, O1, 0),
       Enc(91, 39, O1, 0), Enc(91, 40, O2, 0), Enc(91, 41, O2, 0),
       Enc(91, 42, O1, 0), Enc(91, 48, <<>>, 0), Enc(91, 49, <<>>, 0),
       Enc(91, 50, <<AML_UINT8, AML_UINT32, AML_OBJECT>>, 0),
       Enc(91, 51, <<>>, 0),
       Enc(91, 128, <<AML_NAME, AML_UINT8, AML_OBJECT, AML_OBJECT>>, AML_IN_NAMESPACE),
       Enc(91, 129, <<AML_NAME, AML_UINT8>>, PkgBytes),
       Enc(91, 130, <<AML_NAME>>, PkgChildNs),
       Enc(91, 131, <<AML_NAME, AML_UINT8, AML_UINT32, AML_UINT8>>, PkgChildNs),
       Enc(91, 132, <<AML_NAME, AML_UINT8, AML_UINT16>>, PkgChildNs),
       Enc(91, 133, <<AML_NAME>>, PkgChildNs),
       Enc(91, 134, <<AML_NAME, AML_NAME, AML_UINT8>>, PkgBytes),
       Enc(91, 135, <<AML_NAME, AML_NAME, AML_OBJECT, AML_UINT8>>, PkgBytes),
       Enc(91, 136, <<AML_NAME, AML_OBJECT, AML_OBJECT, AML_OBJECT>>, AML_IN_NAMESPACE),
       Enc(92, 0, <<>>, AML_IS_NAME_CHAR), Enc(94, 0, <<>>, AML_IS_NAME_CHAR),
       Enc(95, 0, <<>>, AML_IS_NAME_CHAR)>>
  \o EncRange(96, 110, <<>>, 0)
  \o <<Enc(112, 0, O2, 0), Enc(113, 0, O1, 0), Enc(114, 0, O3, 0),
       Enc(115, 0, O3, 0), Enc(116, 0, O3, 0), Enc(117, 0, O1, 0),
       Enc(118, 0, O1, 0), Enc(119, 0, O3, 0), Enc(120, 0, O4, 0)>>
  \o EncRange(121, 127, O3, 0)
  \o EncRange(128, 130, O2, 0)
  \o <<Enc(131, 0, O1, 0), Enc(132, 0, O3, 0), Enc(133, 0, O3, 0),
       Enc(134, 0, O2, 0), Enc(135, 0, O1, 0), Enc(136, 0, O3, 0),
       Enc(137, 0, <<AML_OBJECT, AML_UINT8, AML_OBJECT, AML_UINT8, AML_OBJECT, AML_OBJECT>>, 0)>>
  \o EncRange(138, 141, OON, 0)
  \o <<Enc(142, 0, O1, 0), Enc(143, 0, OON, 0), Enc(144, 0, O2, 0),
       Enc(145, 0, O2, 0), Enc(146, 0, O1, 0)>>
  \o EncRange(147, 153, O2, 0)
  \o <<Enc(156, 0, O3, 0), Enc(157, 0, O2, 0), Enc(158, 0, O3, 0),
       Enc(159, 0, <<>>, 0),
       Enc(160, 0, O1, PkgChild), Enc(161, 0, <<>>, PkgChild),
       Enc(162, 0, O1, PkgChild), Enc(163, 0, <<>>, 0), Enc(164, 0, O1, 0),
       Enc(165, 0, <<>>, 0), Enc(204, 0, <<>>, 0), Enc(255, 0, <<>>, 0)>>

EncodingIndexes(OpCode, SubOpCode) ==
  {i \in 1..Len(mAmlByteEncoding) :
     /\ mAmlByteEncoding[i].OpCode = OpCode
     /\ mAmlByteEncoding[i].SubOpCode = SubOpCode}

AmlIsOpCodeValid(OpCode, SubOpCode) == EncodingIndexes(OpCode, SubOpCode) # {}

\* The table index of the entry for the opcode at address p; 0 is NULL.
AmlGetByOpByte(m, p) ==
  Let(EncodingIndexes(ReadByte(m, p),
                      IF ReadByte(m, p) = AML_EXT_OP THEN ReadByte(m, p + 1) ELSE 0),
      LAMBDA Found :
        IF Found = {} THEN 0 ELSE CHOOSE i \in Found : \A j \in Found : i <= j)

mAmlTypeToAcpiType ==
  <<EFI_ACPI_NODE_TYPE_NONE, EFI_ACPI_NODE_TYPE_UINT, EFI_ACPI_NODE_TYPE_UINT,
    EFI_ACPI_NODE_TYPE_UINT, EFI_ACPI_NODE_TYPE_UINT,
    EFI_ACPI_NODE_TYPE_NAME_STRING, EFI_ACPI_NODE_TYPE_STRING,
    EFI_ACPI_NODE_TYPE_CHILD>>

AmlTypeToAcpiType(AmlType) ==
  IF AmlType >= Len(mAmlTypeToAcpiType) THEN EFI_ACPI_NODE_TYPE_NONE
  ELSE mAmlTypeToAcpiType[AmlType + 1]

\* (Attribute & Flag) != 0 for the table entry e.
HasAttr(e, Flag) == BitAnd(mAmlByteEncoding[e].Attribute, Flag) # 0

(***************************************************************************)
(* Aml.c: the PkgLength codec                                              *)
(***************************************************************************)
\* A decoder that reads the lead byte alone, for comparison with the real one.
LeadByteOnly(m, p) ==
  [Offset |-> ((ReadByte(m, p) \div 64) % 4) + 1, PkgLength |-> ReadByte(m, p)]

\* Returns the number of bytes of the field (Offset) and the decoded value.
AmlGetPkgLength(m, p) ==
  LET LeadByte == ReadByte(m, p)
      ByteCount == (LeadByte \div 64) % 4
      Follow == LeValue(ReadBytes(m, p + 1, ByteCount))
  IN [Offset |-> ByteCount + 1,
      PkgLength |-> IF ByteCount = 0 THEN LeadByte
                    ELSE Follow * 16 + (LeadByte % 16)]

\* The bytes AmlSetPkgLength writes; <<>> stands for the return value 0.
AmlSetPkgLength(Length) ==
  IF Length < 64 THEN <<Length>>
  ELSE IF Length >= 268435456 THEN <<>>
  ELSE LET Offset == IF Length >= 1048576 THEN 3
                     ELSE IF Length >= 4096 THEN 2 ELSE 1
       IN <<Offset * 64 + (Length % 16)>>
          \o [i \in 1..Offset |-> (Length \div (16 * Pow2(8 * (i - 1)))) % 256]

AmlComputePkgLengthWidth(Length) ==
  IF Length >= 268435456 THEN 0
  ELSE IF Length >= 1048576 THEN 4
  ELSE IF Length >= 4096 THEN 3
  ELSE IF Length >= 64 THEN 2
  ELSE 1

(***************************************************************************)
(* AmlString.c: name strings                                               *)
(***************************************************************************)
AmlIsLeadName(Ch) == Ch = 95 \/ (Ch >= 65 /\ Ch <= 90)

AmlIsName(Ch) == AmlIsLeadName(Ch) \/ (Ch >= 48 /\ Ch <= 57)

AmlIsNameSeg(m, p) ==
  /\ AmlIsLeadName(ReadByte(m, p))
  /\ \A Index \in 1..(AML_NAME_SEG_SIZE - 1) : AmlIsName(ReadByte(m, p + Index))

\* Number of leading '^' at address p.
RECURSIVE ParentPrefixCount(_, _)
ParentPrefixCount(m, p) ==
  IF ReadByte(m, p) = AML_PARENT_PREFIX_CHAR THEN 1 + ParentPrefixCount(m, p + 1)
  ELSE 0

\* do { AmlIsNameSeg } while (Index < SegCount): TRUE when every visited
\* segment is a NameSeg; the body runs once even for SegCount = 0.
RECURSIVE NameSegsOk(_, _, _, _)
NameSegsOk(m, p, Index, SegCount) ==
  /\ AmlIsNameSeg(m, p)
  /\ (Index + 1 < SegCount => NameSegsOk(m, p + AML_NAME_SEG_SIZE, Index + 1, SegCount))

AmlGetNameStringSize(m, p) ==
  Let(IF ReadByte(m, p) = AML_ROOT_CHAR THEN 1 ELSE ParentPrefixCount(m, p),
      LAMBDA Prefix :
  Let(ReadByte(m, p + Prefix), LAMBDA c :
    LET q == p + Prefix
        Bad == [Status |-> EFI_INVALID_PARAMETER, BufferSize |-> 0]
        SegCount == IF c = AML_DUAL_NAME_PREFIX THEN 2
                    ELSE IF c = AML_MULTI_NAME_PREFIX THEN ReadByte(m, q + 1)
                    ELSE 1
        Skip == IF c = AML_DUAL_NAME_PREFIX THEN 1
                ELSE IF c = AML_MULTI_NAME_PREFIX THEN 2 ELSE 0
        Segs == IF SegCount = 0 THEN 1 ELSE SegCount
    IN IF c = 0
       THEN IF (Prefix = 1 /\ ReadByte(m, q - 1) = AML_ROOT_CHAR)
               \/ ReadByte(m, q - 1) = AML_PARENT_PREFIX_CHAR
            THEN [Status |-> EFI_SUCCESS, BufferSize |-> 2]
            ELSE Bad
       ELSE IF NameSegsOk(m, q + Skip, 0, SegCount)
       THEN [Status |-> EFI_SUCCESS,
             BufferSize |-> Prefix + Skip + Segs * AML_NAME_SEG_SIZE]
       ELSE Bad))

(***************************************************************************)
(* AmlNode.h: the node heap                                                *)
(***************************************************************************)
\* Number of node slots of the pool; an allocation fails when none is free.
MaxNodes == 12

NULL == 0
NodeIds == 1..MaxNodes

EAmlNodeUnknown == 0
EAmlNodeRoot == 1
EAmlNodeObject == 2
EAmlNodeData == 3

\* sizeof (EFI_ACPI_DESCRIPTION_HEADER)
SDT_HEADER_SIZE == 36

\* A slot of the pool that holds no node.  The list entry Link of node n is
\* named n and its list head VariableArgs is named -n.
FreeNode ==
  [NodeType |-> EAmlNodeUnknown, Parent |-> NULL,
   ForwardLink |-> NULL, BackLink |-> NULL,
   VarForwardLink |-> NULL, VarBackLink |-> NULL,
   FixedArgs |-> [i \in 1..AML_OP_PARSE_INDEX_MAX |-> NULL],
   AmlByteEncoding |-> 0, PkgLen |-> 0,
   Buffer |-> <<>>, Size |-> 0, DataType |-> EFI_ACPI_NODE_TYPE_NONE,
   SdtHeader |-> <<>>]

EmptyHeap == [n \in NodeIds |-> FreeNode]

\* AllocateZeroPool: the lowest free slot, NULL when the pool is exhausted.
AllocateZeroPool(h) ==
  IF \E n \in NodeIds : h[n].NodeType = EAmlNodeUnknown
  THEN CHOOSE n \in NodeIds :
         /\ h[n].NodeType = EAmlNodeUnknown
         /\ \A k \in NodeIds : h[k].NodeType = EAmlNodeUnknown => n <= k
  ELSE NULL

Allocated(h) == {n \in NodeIds : h[n].NodeType # EAmlNodeUnknown}

IS_AML_HEADER(h, Node) == Node # NULL
IS_AML_ROOT_NODE(h, Node) == Node # NULL /\ h[Node].NodeType = EAmlNodeRoot
IS_AML_OBJECT_NODE(h, Node) == Node # NULL /\ h[Node].NodeType = EAmlNodeObject
IS_AML_DATA_NODE(h, Node) == Node # NULL /\ h[Node].NodeType = EAmlNodeData

(***************************************************************************)
(* BaseLib LIST_ENTRY primitives, on entries n (Link) and -n (VariableArgs)*)
(***************************************************************************)
ForwardLink(h, e) == IF e > 0 THEN h[e].ForwardLink ELSE h[-e].VarForwardLink
BackLink(h, e) == IF e > 0 THEN h[e].BackLink ELSE h[-e].VarBackLink

SetForwardLink(h, e, v) ==
  IF e > 0 THEN [h EXCEPT ![e].ForwardLink = v]
  ELSE [h EXCEPT ![-e].VarForwardLink = v]

SetBackLink(h, e, v) ==
  IF e > 0 THEN [h EXCEPT ![e].BackLink = v]
  ELSE [h EXCEPT ![-e].VarBackLink = v]

InitializeListHead(h, e) == SetBackLink(SetForwardLink(h, e, e), e, e)

IsListEmpty(h, e) == ForwardLink(h, e) = e

InsertHeadList(h, ListHead, Entry) ==
  LET h1 == SetForwardLink(h, Entry, ForwardLink(h, ListHead))
      h2 == SetBackLink(h1, Entry, ListHead)
      h3 == SetBackLink(h2, ForwardLink(h2, Entry), Entry)
  IN SetForwardLink(h3, ListHead, Entry)

InsertTailList(h, ListHead, Entry) ==
  LET h1 == SetForwardLink(h, Entry, ListHead)
      h2 == SetBackLink(h1, Entry, BackLink(h1, ListHead))
      h3 == SetForwardLink(h2, BackLink(h2, Entry), Entry)
  IN SetBackLink(h3, ListHead, Entry)

\* The heap after the removal; the C function returns Entry->ForwardLink.
RemoveEntryList(h, Entry) ==
  LET h1 == SetBackLink(h, ForwardLink(h, Entry), BackLink(h, Entry))
  IN SetForwardLink(h1, BackLink(h1, Entry), ForwardLink(h1, Entry))

\* The entries met from e (included) following ForwardLink up to Stop.
RECURSIVE ListWalk(_, _, _, _)
ListWalk(h, e, Stop, Fuel) ==
  IF e = Stop \/ Fuel = 0 THEN <<>>
  ELSE <<e>> \o ListWalk(h, ForwardLink(h, e), Stop, Fuel - 1)

\* The entries of the ring of ListHead, ListHead excluded.
ListEntries(h, ListHead) ==
  ListWalk(h, ForwardLink(h, ListHead), ListHead, 2 * MaxNodes)

IsNodeInList(h, FirstEntry, SecondEntry) ==
  \E i \in DOMAIN ListEntries(h, FirstEntry) :
    ListEntries(h, FirstEntry)[i] = SecondEntry

\* A detached test that forgets the list and the parent.
NodeIsNotNull(h, Node) == Node # NULL

AML_NODE_IS_DETACHED(h, Node) ==
  /\ Node # NULL
  /\ IsListEmpty(h, Node)
  /\ h[Node].Parent = NULL

(***************************************************************************)
(* AmlNode.c: node creation and deletion                                   *)
(***************************************************************************)
AmlInitializeAmlNodeHeader(h, n, NodeType) ==
  [h EXCEPT ![n] = [FreeNode EXCEPT !.NodeType = NodeType,
                                    !.ForwardLink = n, !.BackLink = n]]

AmlCreateRootNode(h, SdtHeader) ==
  LET RootNode == AllocateZeroPool(h)
      h1 == AmlInitializeAmlNodeHeader(h, RootNode, EAmlNodeRoot)
      h2 == InitializeListHead(h1, -RootNode)
  IN IF RootNode = NULL
     THEN [Status |-> EFI_OUT_OF_RESOURCES, h |-> h, Node |-> NULL]
     ELSE [Status |-> EFI_SUCCESS,
           h |-> [h2 EXCEPT ![RootNode].SdtHeader = SdtHeader],
           Node |-> RootNode]

AmlCreateObjectNode(h, AmlByteEncoding, PkgLength) ==
  LET ObjectNode == AllocateZeroPool(h)
      h1 == AmlInitializeAmlNodeHeader(h, ObjectNode, EAmlNodeObject)
      h2 == InitializeListHead(h1, -ObjectNode)
  IN IF AmlByteEncoding = 0
     THEN [Status |-> EFI_INVALID_PARAMETER, h |-> h, Node |-> NULL]
     ELSE IF ObjectNode = NULL
     THEN [Status |-> EFI_OUT_OF_RESOURCES, h |-> h, Node |-> NULL]
     ELSE [Status |-> EFI_SUCCESS,
           h |-> [h2 EXCEPT ![ObjectNode].AmlByteEncoding = AmlByteEncoding,
                            ![ObjectNode].PkgLen = PkgLength],
           Node |-> ObjectNode]

\* Data is the address p of memory m.  A DataSize held as a negative number
\* is 2^31 bytes or more, which AllocateZeroPool cannot provide.
AmlCreateDataNode(h, DataType, m, p, DataSize) ==
  LET DataNode == AllocateZeroPool(h)
      h1 == AmlInitializeAmlNodeHeader(h, DataNode, EAmlNodeData)
  IN IF DataType <= 4 \/ DataType = EFI_ACPI_NODE_TYPE_CHILD \/ DataSize = 0
     THEN [Status |-> EFI_INVALID_PARAMETER, h |-> h, Node |-> NULL]
     ELSE IF DataNode = NULL \/ DataSize < 0
     THEN [Status |-> EFI_OUT_OF_RESOURCES, h |-> h, Node |-> NULL]
     ELSE [Status |-> EFI_SUCCESS,
           h |-> [h1 EXCEPT ![DataNode].Buffer = ReadBytes(m, p, DataSize),
                            ![DataNode].DataType = DataType,
                            ![DataNode].Size = DataSize],
           Node |-> DataNode]

AmlDeleteNode(h, Node) ==
  IF ~IS_AML_HEADER(h, Node) \/ ~AML_NODE_IS_DETACHED(h, Node)
  THEN [Status |-> EFI_INVALID_PARAMETER, h |-> h]
  ELSE IF h[Node].NodeType \in {EAmlNodeRoot, EAmlNodeObject, EAmlNodeData}
  THEN [Status |-> EFI_SUCCESS, h |-> [h EXCEPT ![Node] = FreeNode]]
  ELSE [Status |-> EFI_INVALID_PARAMETER, h |-> h]

AmlObjectNodeHasAttribute(h, ObjectNode, Attribute) ==
  /\ IS_AML_OBJECT_NODE(h, ObjectNode)
  /\ h[ObjectNode].AmlByteEncoding # 0
  /\ HasAttr(h[ObjectNode].AmlByteEncoding, Attribute)

AmlNodeCompareOpCode(h, ObjectNode, OpCode, SubOpCode) ==
  /\ IS_AML_OBJECT_NODE(h, ObjectNode)
  /\ h[ObjectNode].AmlByteEncoding # 0
  /\ mAmlByteEncoding[h[ObjectNode].AmlByteEncoding].OpCode = OpCode
  /\ mAmlByteEncoding[h[ObjectNode].AmlByteEncoding].SubOpCode = SubOpCode

AmlGetParent(h, Node) ==
  IF IS_AML_DATA_NODE(h, Node) \/ IS_AML_OBJECT_NODE(h, Node)
  THEN h[Node].Parent ELSE NULL

(***************************************************************************)
(* AmlTree.c: fixed arguments and variable argument lists                  *)
(***************************************************************************)
AmlGetFixedArgumentCount(h, Node) ==
  IF IS_AML_OBJECT_NODE(h, Node) /\ h[Node].AmlByteEncoding # 0
  THEN mAmlByteEncoding[h[Node].AmlByteEncoding].MaxIndex
  ELSE 0

AmlGetFixedArgument(h, ObjectNode, Index) ==
  IF IS_AML_OBJECT_NODE(h, ObjectNode)
     /\ Index < AmlGetFixedArgumentCount(h, ObjectNode)
  THEN h[ObjectNode].FixedArgs[Index + 1]
  ELSE NULL

\* The index of Node among its parent's fixed arguments, -1 when it is none.
AmlIsNodeFixedArgument(h, Node) ==
  IF ~(IS_AML_DATA_NODE(h, Node) \/ IS_AML_OBJECT_NODE(h, Node)) THEN -1
  ELSE Let(AmlGetParent(h, Node), LAMBDA ParentNode :
    IF ~(IS_AML_ROOT_NODE(h, ParentNode) \/ IS_AML_OBJECT_NODE(h, ParentNode))
    THEN -1
    ELSE Let({Index \in 0..(AmlGetFixedArgumentCount(h, ParentNode) - 1) :
                h[ParentNode].FixedArgs[Index + 1] = Node},
             LAMBDA Hits :
               IF Hits = {} THEN -1 ELSE CHOOSE i \in Hits : \A j \in Hits : i <= j))

\* Index = MaxIndex passes the check of the C code; the model has no slot
\* for FixedArgs[6] and rejects that single index.
AmlSetFixedArgument(h, ObjectNode, Index, NewNode) ==
  IF /\ IS_AML_OBJECT_NODE(h, ObjectNode)
     /\ Index >= AML_OP_PARSE_INDEX_GET_TERM1
     /\ Index <= AmlGetFixedArgumentCount(h, ObjectNode)
     /\ Index < AML_OP_PARSE_INDEX_MAX
     /\ (NewNode = NULL \/ IS_AML_OBJECT_NODE(h, NewNode) \/ IS_AML_DATA_NODE(h, NewNode))
  THEN LET h1 == [h EXCEPT ![ObjectNode].FixedArgs[Index + 1] = NewNode]
       IN [Status |-> EFI_SUCCESS,
           h |-> IF NewNode # NULL THEN [h1 EXCEPT ![NewNode].Parent = ObjectNode]
                 ELSE h1]
  ELSE [Status |-> EFI_INVALID_PARAMETER, h |-> h]

\* The list head VariableArgs of Node, NULL for a data node.
AmlNodeGetVariableArgList(h, Node) ==
  IF IS_AML_ROOT_NODE(h, Node) \/ IS_AML_OBJECT_NODE(h, Node) THEN -Node ELSE NULL

AmlVarListAddTailInternal(h, ParentNode, NewNode) ==
  IF \/ ~(IS_AML_ROOT_NODE(h, ParentNode) \/ IS_AML_OBJECT_NODE(h, ParentNode))
     \/ ~(IS_AML_DATA_NODE(h, NewNode) \/ IS_AML_OBJECT_NODE(h, NewNode))
     \/ ~AML_NODE_IS_DETACHED(h, NewNode)
  THEN [Status |-> EFI_INVALID_PARAMETER, h |-> h]
  ELSE [Status |-> EFI_SUCCESS,
        h |-> [InsertTailList(h, AmlNodeGetVariableArgList(h, ParentNode), NewNode)
                 EXCEPT ![NewNode].Parent = ParentNode]]

\* What stands in an enumeration for a recursion that never returns: the
\* node is below itself, the calls nest until the stack is exhausted.
STACK_EXHAUSTED == -1

\* The nodes AmlEnumTree hands to its callback, in call order, when every
\* call asks to continue; NULL stands for an absent fixed argument.  Path is
\* the set of nodes whose enumeration is in progress: meeting one of them
\* again is a recursion that never returns, and the stack runs out.
RECURSIVE AmlEnumTreeAt(_, _, _)
RECURSIVE AmlEnumNodes(_, _, _)
AmlEnumNodes(h, Nodes, Path) ==
  IF Nodes = <<>> THEN <<>>
  ELSE AmlEnumTreeAt(h, Head(Nodes), Path) \o AmlEnumNodes(h, Tail(Nodes), Path)

AmlEnumTreeAt(h, Node, Path) ==
  IF Node = NULL THEN <<NULL>>
  ELSE IF Node \in Path THEN <<STACK_EXHAUSTED>>
  ELSE <<Node>>
       \o AmlEnumNodes(h, SubSeq(h[Node].FixedArgs, 1, AmlGetFixedArgumentCount(h, Node)),
                       Path \cup {Node})
       \o (IF AmlNodeGetVariableArgList(h, Node) = NULL THEN <<>>
           ELSE AmlEnumNodes(h, ListEntries(h, AmlNodeGetVariableArgList(h, Node)),
                             Path \cup {Node}))

AmlEnumTree(h, Node) == AmlEnumTreeAt(h, Node, {})

(***************************************************************************)
(* AmlResourceData.h / AmlResourceData.c: resource data headers            *)
(***************************************************************************)
AML_RD_LARGE_TYPE == 128
AML_RD_SMALL_SIZE_MASK == 7
AML_RD_SMALL_ID_MASK == 120
AML_RD_SMALL_HEADER_SIZE == 1
AML_RD_LARGE_HEADER_SIZE == 3

AML_RD_IS_LARGE(m, p) == BitAnd(ReadByte(m, p), AML_RD_LARGE_TYPE) = AML_RD_LARGE_TYPE

AML_RD_BUILD_SMALL_DESC_ID(Id) == (Id % 16) * 8

AmlRdCompareDescId(Header, DescriptorId) == BitAnd(Header, DescriptorId) = DescriptorId

AmlRdGetDescId(m, p) ==
  IF AML_RD_IS_LARGE(m, p) THEN ReadByte(m, p)
  ELSE BitAnd(ReadByte(m, p), AML_RD_SMALL_ID_MASK)

\* A size that forgets the body of the element, for comparison.
HeaderSizeOnly(m, p) == AML_RD_SMALL_HEADER_SIZE

AmlRdGetSize(m, p) ==
  IF AML_RD_IS_LARGE(m, p)
  THEN ReadByte(m, p + 1) + 256 * ReadByte(m, p + 2) + AML_RD_LARGE_HEADER_SIZE
  ELSE BitAnd(ReadByte(m, p), AML_RD_SMALL_SIZE_MASK) + AML_RD_SMALL_HEADER_SIZE

(***************************************************************************)
(* AmlUtility.c: sizes                                                     *)
(***************************************************************************)
\* The status of a run that dereferenced NULL or a pointer of the wrong type,
\* or exhausted the stack.
FAULT == "FAULT"

\* The table length field of a header image (bytes 4..7, little endian).
HeaderLength(SdtHeader) == LeResidue(SubSeq(SdtHeader, 5, 8))

SetHeaderLength(SdtHeader, Length) ==
  [i \in 1..Len(SdtHeader) |->
     IF i >= 5 /\ i <= 8 THEN LeBytes(Length, 4)[i - 4] ELSE SdtHeader[i]]

\* The Size the callback leaves in its context for a non-NULL Node.
AmlComputeSizeCallback(h, Node, Size) ==
  IF IS_AML_DATA_NODE(h, Node) THEN Size + h[Node].Size
  ELSE IF IS_AML_OBJECT_NODE(h, Node)
  THEN Size
       + (IF mAmlByteEncoding[h[Node].AmlByteEncoding].OpCode = AML_EXT_OP
          THEN 2 ELSE 1)
       + (IF AmlObjectNodeHasAttribute(h, Node, AML_HAS_PKG_LENGTH)
          THEN AmlComputePkgLengthWidth(h[Node].PkgLen) ELSE 0)
  ELSE Size

\* The enumeration stops with EFI_INVALID_PARAMETER at the first NULL node.
RECURSIVE AmlComputeSizeEnum(_, _, _)
AmlComputeSizeEnum(h, Nodes, Size) ==
  IF Nodes = <<>> THEN [Status |-> EFI_SUCCESS, Size |-> Size]
  ELSE IF Head(Nodes) = NULL THEN [Status |-> EFI_INVALID_PARAMETER, Size |-> Size]
  ELSE IF Head(Nodes) = STACK_EXHAUSTED THEN [Status |-> FAULT, Size |-> Size]
  ELSE AmlComputeSizeEnum(h, Tail(Nodes), AmlComputeSizeCallback(h, Head(Nodes), Size))

AmlComputeSize(h, Node, Size) ==
  IF ~IS_AML_HEADER(h, Node) THEN [Status |-> EFI_INVALID_PARAMETER, Size |-> Size]
  ELSE AmlComputeSizeEnum(h, AmlEnumTree(h, Node), Size)

(***************************************************************************)
(* AmlUtility.c: integer nodes                                             *)
(***************************************************************************)
IsIntegerNode(h, Node) ==
  /\ IS_AML_OBJECT_NODE(h, Node)
  /\ mAmlByteEncoding[h[Node].AmlByteEncoding].OpCode \in
       {AML_BYTE_PREFIX, AML_WORD_PREFIX, AML_DWORD_PREFIX, AML_QWORD_PREFIX}

\* The data node of an integer node, NULL when the first fixed argument is
\* no UINT data node.
IntegerDataNode(h, Node) ==
  LET DataNode == h[Node].FixedArgs[AML_OP_PARSE_INDEX_GET_TERM1 + 1]
  IN IF IS_AML_DATA_NODE(h, DataNode) /\ h[DataNode].DataType = EFI_ACPI_NODE_TYPE_UINT
     THEN DataNode ELSE NULL

AmlNodeGetIntegerValue(h, Node) ==
  IF ~IsIntegerNode(h, Node) \/ IntegerDataNode(h, Node) = NULL
  THEN [Status |-> EFI_INVALID_PARAMETER, Value |-> 0]
  ELSE LET DataNode == IntegerDataNode(h, Node)
       IN IF h[DataNode].Size \in {1, 2, 4, 8}
          THEN [Status |-> EFI_SUCCESS,
                Value |-> IF h[DataNode].Size = 8
                          THEN LeResidue(SubSeq(h[DataNode].Buffer, 1, 8))
                          ELSE LeValue(SubSeq(h[DataNode].Buffer, 1, h[DataNode].Size))]
          ELSE [Status |-> EFI_INVALID_PARAMETER, Value |-> 0]

RECURSIVE AmlPropagateInformation(_, _, _, _, _)

\* Buffer is the caller's memory at the address handed in; Size bytes of it
\* are copied.
AmlUpdateDataNode(h, DataNode, Buffer, Size) ==
  LET Bad == [Status |-> EFI_INVALID_PARAMETER, h |-> h]
      ExpectedArgType == h[DataNode].DataType
      OldSize == h[DataNode].Size
      \* FreePool, AllocateZeroPool (Size)
      h1 == [h EXCEPT ![DataNode].Buffer = [i \in 1..Size |-> 0]]
      Copy(hh) == [hh EXCEPT ![DataNode].Buffer = ReadBytes(Buffer, 0, Size)]
  IN IF ~IS_AML_DATA_NODE(h, DataNode) \/ Size = 0 THEN Bad
     ELSE IF ~IS_AML_OBJECT_NODE(h, AmlGetParent(h, DataNode)) THEN Bad
     ELSE IF ~(CASE ExpectedArgType = EFI_ACPI_NODE_TYPE_NAME_STRING ->
                      Let(AmlGetNameStringSize(Buffer, 0), LAMBDA Name :
                        ~EFI_ERROR(Name.Status) /\ Size = Name.BufferSize)
                 [] ExpectedArgType = EFI_ACPI_NODE_TYPE_STRING -> TRUE
                 [] ExpectedArgType = EFI_ACPI_NODE_TYPE_UINT -> OldSize = Size
                 [] ExpectedArgType \in {EFI_ACPI_NODE_TYPE_RAW,
                                         EFI_ACPI_NODE_TYPE_FIELD_ELEMENT} -> TRUE
                 [] ExpectedArgType = EFI_ACPI_NODE_TYPE_RESOURCE_DATA ->
                      /\ ~(AML_RD_IS_LARGE(Buffer, 0) /\ Size < AML_RD_LARGE_HEADER_SIZE)
                      /\ AmlRdGetSize(Buffer, 0) = Size
                 [] OTHER -> FALSE)
     THEN Bad
     ELSE IF OldSize # Size
     THEN Let(AmlPropagateInformation(h1, h1[DataNode].Parent, Size > OldSize,
                                      IF Size > OldSize THEN Size - OldSize
                                      ELSE OldSize - Size, 0),
              LAMBDA p :
                IF EFI_ERROR(p.Status) THEN [Status |-> p.Status, h |-> p.h]
                ELSE [Status |-> EFI_SUCCESS,
                      h |-> Copy([p.h EXCEPT ![DataNode].Size = Size])])
     ELSE [Status |-> EFI_SUCCESS, h |-> Copy(h)]

AmlNodeSetIntegerValue(h, Node, NewValue, HasFixedWidth) ==
  LET DataNode == IntegerDataNode(h, Node)
      \* NewValue > MAX_UINT32 on a UINT64: a wrapped value, or more than
      \* MAX_UINT16 whole multiples of 2^16.
      Above32 == NewValue < 0 \/ NewValue \div (MAX_UINT16 + 1) > MAX_UINT16
      NewOpCode == IF Above32 THEN AML_QWORD_PREFIX
                   ELSE IF NewValue > MAX_UINT16 THEN AML_DWORD_PREFIX
                   ELSE IF NewValue > MAX_UINT8 THEN AML_WORD_PREFIX
                   ELSE AML_BYTE_PREFIX
      NumberOfBytes == IF Above32 THEN 8
                       ELSE IF NewValue > MAX_UINT16 THEN 4
                       ELSE IF NewValue > MAX_UINT8 THEN 2
                       ELSE 1
  IN IF ~IsIntegerNode(h, Node) \/ DataNode = NULL
     THEN [Status |-> EFI_INVALID_PARAMETER, h |-> h, ValueWidthDiff |-> 0]
     ELSE IF ~HasFixedWidth
             /\ mAmlByteEncoding[h[Node].AmlByteEncoding].OpCode # NewOpCode
     THEN [Status |-> EFI_UNSUPPORTED, h |-> h, ValueWidthDiff |-> 0]
     ELSE Let(AmlUpdateDataNode(
                [h EXCEPT ![Node].AmlByteEncoding = AmlGetByOpByte(<<NewOpCode>>, 0)],
                DataNode, LeBytes(NewValue, 8), NumberOfBytes),
              LAMBDA u :
                [Status |-> u.Status, h |-> u.h,
                 ValueWidthDiff |-> NumberOfBytes - h[DataNode].Size])

\* The update without its two range tests, for comparison.
UncheckedUpdateIntegerValue(h, IntegerNode, Operation, Diff, HasFixedWidth) ==
  Let(AmlNodeGetIntegerValue(h, IntegerNode), LAMBDA g :
    IF EFI_ERROR(g.Status)
    THEN [Status |-> g.Status, h |-> h, ValueWidthDiff |-> 0]
    ELSE AmlNodeSetIntegerValue(h, IntegerNode,
                                IF Operation THEN g.Value + Diff ELSE g.Value - Diff,
                                HasFixedWidth))

AmlNodeUpdateIntegerValue(h, IntegerNode, Operation, Diff, HasFixedWidth) ==
  Let(AmlNodeGetIntegerValue(h, IntegerNode), LAMBDA g :
    IF EFI_ERROR(g.Status)
    THEN [Status |-> g.Status, h |-> h, ValueWidthDiff |-> 0]
    ELSE IF (Operation /\ UGt(g.Value, MAX_UINT64 - Diff))
            \/ (~Operation /\ ULt(g.Value, Diff))
    THEN [Status |-> EFI_INVALID_PARAMETER, h |-> h, ValueWidthDiff |-> 0]
    ELSE AmlNodeSetIntegerValue(h, IntegerNode,
                                IF Operation THEN g.Value + Diff ELSE g.Value - Diff,
                                HasFixedWidth))

Abs(x) == IF x < 0 THEN -x ELSE x

\* The Parent pointers from Node reach NULL: the propagation up the tree
\* returns.  On a node that is its own ancestor it recurses without end.
RECURSIVE ParentChainEnds(_, _, _)
ParentChainEnds(h, Node, Fuel) ==
  IF Node = NULL THEN TRUE
  ELSE IF Fuel = 0 THEN FALSE
  ELSE ParentChainEnds(h, h[Node].Parent, Fuel - 1)

(***************************************************************************)
(* AmlUtility.c: propagation of a size or node-count change to ancestors   *)
(***************************************************************************)
\* The largest PkgLen: ~(0xF << 28).
MAX_PKG_LEN == 268435455

RECURSIVE AmlPropagateSize(_, _, _, _)
AmlPropagateSize(h, Node, Operation, Diff) ==
  IF ~IS_AML_OBJECT_NODE(h, Node) /\ ~IS_AML_ROOT_NODE(h, Node)
  THEN [Status |-> EFI_INVALID_PARAMETER, h |-> h]
  ELSE IF ~ParentChainEnds(h, Node, MaxNodes) THEN [Status |-> FAULT, h |-> h]
  ELSE IF IS_AML_OBJECT_NODE(h, Node)
  THEN Let(mAmlByteEncoding[h[Node].AmlByteEncoding].OpCode = AML_BUFFER_OP,
           LAMBDA IsBuffer :
       Let(AmlNodeUpdateIntegerValue(h, h[Node].FixedArgs[AML_OP_PARSE_INDEX_GET_TERM1 + 1],
                                     Operation, Diff, TRUE),
           LAMBDA u :
       Let(AmlObjectNodeHasAttribute(h, Node, AML_HAS_PKG_LENGTH), LAMBDA HasPkg :
         LET FieldWidthChange == u.ValueWidthDiff
             BadWidth ==
               \/ Operation /\ UGt(Diff, MAX_UINT64 - FieldWidthChange)
               \/ ~Operation /\ ULt(Diff, U8(-FieldWidthChange))
             h1 == IF IsBuffer THEN u.h ELSE h
             Diff1 == IF IsBuffer THEN Diff + Abs(FieldWidthChange) ELSE Diff
             Value == h1[Node].PkgLen
             BadPkg == \/ ~Operation /\ ULt(Value, Diff1)
                       \/ Operation /\ ULt(MAX_PKG_LEN - Value, Diff1)
             h2 == IF HasPkg
                   THEN [h1 EXCEPT ![Node].PkgLen =
                           IF Operation THEN Value + Diff1 ELSE Value - Diff1]
                   ELSE h1
         IN IF IsBuffer /\ EFI_ERROR(u.Status) THEN [Status |-> u.Status, h |-> u.h]
            ELSE IF IsBuffer /\ BadWidth THEN [Status |-> EFI_INVALID_PARAMETER, h |-> h1]
            ELSE IF HasPkg /\ BadPkg THEN [Status |-> EFI_INVALID_PARAMETER, h |-> h1]
            ELSE AmlPropagateSize(h2, h2[Node].Parent, Operation, Diff1))))
  ELSE LET Value == HeaderLength(h[Node].SdtHeader)
       IN IF (Operation /\ UGt(Value, MAX_UINT32 - Diff))
             \/ (~Operation /\ ULt(Value, Diff))
          THEN [Status |-> EFI_INVALID_PARAMETER, h |-> h]
          ELSE [Status |-> EFI_SUCCESS,
                h |-> [h EXCEPT ![Node].SdtHeader =
                         SetHeaderLength(@, IF Operation THEN Value + Diff
                                            ELSE Value - Diff)]]

AmlPropagateNodeCount(h, ObjectNode, Operation, NodeCount) ==
  IF ~IS_AML_OBJECT_NODE(h, ObjectNode)
  THEN [Status |-> EFI_INVALID_PARAMETER, h |-> h, FieldWidthChange |-> 0]
  ELSE Let(mAmlByteEncoding[h[ObjectNode].AmlByteEncoding].OpCode, LAMBDA OpCode :
  IF OpCode = AML_PACKAGE_OP
  THEN LET ArgNode == h[ObjectNode].FixedArgs[AML_OP_PARSE_INDEX_GET_TERM1 + 1]
           Value == h[ArgNode].Buffer[1]
       IN IF ~IS_AML_DATA_NODE(h, ArgNode)
          THEN [Status |-> FAULT, h |-> h, FieldWidthChange |-> 0]
          ELSE IF (~Operation /\ Value < NodeCount)
                  \/ (Operation /\ MAX_UINT8 - Value < NodeCount)
          THEN [Status |-> EFI_INVALID_PARAMETER, h |-> h, FieldWidthChange |-> 0]
          ELSE [Status |-> EFI_SUCCESS,
                h |-> [h EXCEPT ![ArgNode].Buffer[1] =
                         IF Operation THEN Value + NodeCount ELSE Value - NodeCount],
                FieldWidthChange |-> 0]
  ELSE IF OpCode = AML_VAR_PACKAGE_OP
  THEN Let(AmlNodeUpdateIntegerValue(
             h, h[ObjectNode].FixedArgs[AML_OP_PARSE_INDEX_GET_TERM1 + 1],
             Operation, NodeCount, FALSE),
           LAMBDA u :
             [Status |-> u.Status, h |-> u.h,
              FieldWidthChange |-> IF EFI_ERROR(u.Status) THEN 0 ELSE u.ValueWidthDiff])
  ELSE [Status |-> EFI_SUCCESS, h |-> h, FieldWidthChange |-> 0])

AmlPropagateInformation(h, Node, Operation, Diff, NodeCount) ==
  IF NodeCount # 0 /\ IS_AML_OBJECT_NODE(h, Node)
  THEN Let(AmlPropagateNodeCount(h, Node, Operation, NodeCount), LAMBDA c :
         IF EFI_ERROR(c.Status) THEN [Status |-> c.Status, h |-> c.h]
         ELSE IF \/ Abs(c.FieldWidthChange) > 7
                 \/ Operation /\ c.FieldWidthChange < 0
                 \/ ~Operation /\ c.FieldWidthChange > 0
         THEN [Status |-> EFI_INVALID_PARAMETER, h |-> c.h]
         ELSE IF Diff + c.FieldWidthChange # 0
         THEN AmlPropagateSize(c.h, Node, Operation, Diff + c.FieldWidthChange)
         ELSE [Status |-> EFI_SUCCESS, h |-> c.h])
  ELSE IF Diff # 0 THEN AmlPropagateSize(h, Node, Operation, Diff)
  ELSE [Status |-> EFI_SUCCESS, h |-> h]

(***************************************************************************)
(* AmlTree.c: the editing primitives                                       *)
(***************************************************************************)
\* The common tail of the insertions: size of the new node, then propagation.
PropagateInsertion(h, ParentNode, NewNode) ==
  Let(AmlComputeSize(h, NewNode, 0), LAMBDA c :
    IF EFI_ERROR(c.Status) THEN [Status |-> c.Status, h |-> h]
    ELSE AmlPropagateInformation(h, ParentNode, TRUE, c.Size, 1))

AmlRemoveNodeFromVarArgList(h, Node) ==
  LET ParentNode == AmlGetParent(h, Node)
      h1 == InitializeListHead(RemoveEntryList(h, Node), Node)
      h2 == [h1 EXCEPT ![Node].Parent = NULL]
  IN IF ~IS_AML_DATA_NODE(h, Node) /\ ~IS_AML_OBJECT_NODE(h, Node)
     THEN [Status |-> EFI_INVALID_PARAMETER, h |-> h]
     ELSE IF ~IS_AML_ROOT_NODE(h, ParentNode) /\ ~IS_AML_OBJECT_NODE(h, ParentNode)
     THEN [Status |-> EFI_INVALID_PARAMETER, h |-> h]
     ELSE IF ~IsNodeInList(h, AmlNodeGetVariableArgList(h, ParentNode), Node)
     THEN [Status |-> EFI_INVALID_PARAMETER, h |-> h]
     ELSE Let(AmlComputeSize(h2, Node, 0), LAMBDA c :
            IF EFI_ERROR(c.Status) THEN [Status |-> c.Status, h |-> h2]
            ELSE AmlPropagateInformation(h2, ParentNode, FALSE, c.Size, 1))

AmlVarListAddHead(h, ParentNode, NewNode) ==
  IF \/ ~(IS_AML_ROOT_NODE(h, ParentNode) \/ IS_AML_OBJECT_NODE(h, ParentNode))
     \/ ~(IS_AML_DATA_NODE(h, NewNode) \/ IS_AML_OBJECT_NODE(h, NewNode))
     \/ ~AML_NODE_IS_DETACHED(h, NewNode)
  THEN [Status |-> EFI_INVALID_PARAMETER, h |-> h]
  ELSE PropagateInsertion(
         [InsertHeadList(h, AmlNodeGetVariableArgList(h, ParentNode), NewNode)
            EXCEPT ![NewNode].Parent = ParentNode],
         ParentNode, NewNode)

AmlVarListAddTail(h, ParentNode, NewNode) ==
  Let(AmlVarListAddTailInternal(h, ParentNode, NewNode), LAMBDA a :
    IF EFI_ERROR(a.Status) THEN a
    ELSE PropagateInsertion(a.h, ParentNode, NewNode))

AmlVarListAddAfter(h, Node, NewNode) ==
  LET ParentNode == AmlGetParent(h, Node)
  IN IF \/ ~(IS_AML_DATA_NODE(h, NewNode) \/ IS_AML_OBJECT_NODE(h, NewNode))
        \/ ~AML_NODE_IS_DETACHED(h, NewNode)
     THEN [Status |-> EFI_INVALID_PARAMETER, h |-> h]
     ELSE IF ~IS_AML_ROOT_NODE(h, ParentNode) /\ ~IS_AML_OBJECT_NODE(h, ParentNode)
     THEN [Status |-> EFI_INVALID_PARAMETER, h |-> h]
     ELSE PropagateInsertion(
            [InsertHeadList(h, Node, NewNode) EXCEPT ![NewNode].Parent = ParentNode],
            ParentNode, NewNode)

AmlVarListAddBefore(h, Node, NewNode) ==
  LET ParentNode == AmlGetParent(h, Node)
  IN IF \/ ~(IS_AML_DATA_NODE(h, NewNode) \/ IS_AML_OBJECT_NODE(h, NewNode))
        \/ ~AML_NODE_IS_DETACHED(h, NewNode)
     THEN [Status |-> EFI_INVALID_PARAMETER, h |-> h]
     ELSE IF ~IS_AML_ROOT_NODE(h, ParentNode) /\ ~IS_AML_OBJECT_NODE(h, ParentNode)
     THEN [Status |-> EFI_INVALID_PARAMETER, h |-> h]
     ELSE PropagateInsertion(
            [InsertTailList(h, Node, NewNode) EXCEPT ![NewNode].Parent = ParentNode],
            ParentNode, NewNode)

\* The common tail of the replacements: both sizes, then the difference.
PropagateReplacement(h, ParentNode, OldNode, NewNode) ==
  Let(AmlComputeSize(h, OldNode, 0), LAMBDA o :
  Let(AmlComputeSize(h, NewNode, 0), LAMBDA n :
    IF EFI_ERROR(o.Status) THEN [Status |-> o.Status, h |-> h]
    ELSE IF EFI_ERROR(n.Status) THEN [Status |-> n.Status, h |-> h]
    ELSE AmlPropagateInformation(h, ParentNode, n.Size > o.Size,
                                 IF n.Size > o.Size THEN n.Size - o.Size
                                 ELSE o.Size - n.Size, 0)))

\* The replacement without the comparison of the types, for comparison.
UntypedReplaceFixedArgument(h, ParentNode, Index, NewNode) ==
  IF \/ ~IS_AML_OBJECT_NODE(h, ParentNode)
     \/ ~(IS_AML_DATA_NODE(h, NewNode) \/ IS_AML_OBJECT_NODE(h, NewNode))
     \/ ~AML_NODE_IS_DETACHED(h, NewNode)
  THEN [Status |-> EFI_INVALID_PARAMETER, h |-> h]
  ELSE Let(AmlGetFixedArgument(h, ParentNode, Index), LAMBDA OldNode :
    IF OldNode = NULL THEN [Status |-> EFI_ABORTED, h |-> h]
    ELSE Let(AmlSetFixedArgument([h EXCEPT ![OldNode].Parent = NULL],
                                 ParentNode, Index, NewNode),
             LAMBDA s :
               IF EFI_ERROR(s.Status) THEN [Status |-> s.Status, h |-> s.h]
               ELSE PropagateReplacement(s.h, ParentNode, OldNode, NewNode)))

AmlReplaceFixedArgument(h, ParentNode, Index, NewNode) ==
  IF \/ ~IS_AML_OBJECT_NODE(h, ParentNode)
     \/ ~(IS_AML_DATA_NODE(h, NewNode) \/ IS_AML_OBJECT_NODE(h, NewNode))
     \/ ~AML_NODE_IS_DETACHED(h, NewNode)
  THEN [Status |-> EFI_INVALID_PARAMETER, h |-> h]
  ELSE Let(mAmlByteEncoding[h[ParentNode].AmlByteEncoding].Format[Index + 1],
           LAMBDA FixedArgType :
    IF FixedArgType \in {AML_UINT8, AML_UINT16, AML_UINT32, AML_UINT64,
                         AML_NAME, AML_STRING}
       /\ IS_AML_DATA_NODE(h, NewNode)
       /\ h[NewNode].DataType # AmlTypeToAcpiType(FixedArgType)
       /\ ~IS_AML_OBJECT_NODE(h, NewNode)
    THEN [Status |-> EFI_INVALID_PARAMETER, h |-> h]
    ELSE IF FixedArgType = AML_NONE THEN [Status |-> EFI_INVALID_PARAMETER, h |-> h]
    ELSE Let(AmlGetFixedArgument(h, ParentNode, Index), LAMBDA OldNode :
      IF OldNode = NULL THEN [Status |-> EFI_ABORTED, h |-> h]
      ELSE Let(AmlSetFixedArgument([h EXCEPT ![OldNode].Parent = NULL],
                                   ParentNode, Index, NewNode),
               LAMBDA s :
                 IF EFI_ERROR(s.Status) THEN [Status |-> s.Status, h |-> s.h]
                 ELSE PropagateReplacement(s.h, ParentNode, OldNode, NewNode))))

AmlReplaceVariableArgument(h, OldNode, NewNode) ==
  LET Bad == [Status |-> EFI_INVALID_PARAMETER, h |-> h]
      ParentNode == AmlGetParent(h, OldNode)
      NextLink == ForwardLink(h, OldNode)
      h1 == InitializeListHead(RemoveEntryList(h, OldNode), OldNode)
      h2 == [h1 EXCEPT ![OldNode].Parent = NULL]
      h3 == InsertHeadList(h2, NextLink, NewNode)
      h4 == [h3 EXCEPT ![NewNode].Parent = ParentNode]
  IN IF \/ ~(IS_AML_DATA_NODE(h, OldNode) \/ IS_AML_OBJECT_NODE(h, OldNode))
        \/ ~(IS_AML_DATA_NODE(h, NewNode) \/ IS_AML_OBJECT_NODE(h, NewNode))
        \/ ~AML_NODE_IS_DETACHED(h, NewNode)
     THEN Bad
     ELSE IF ~IS_AML_ROOT_NODE(h, ParentNode) /\ ~IS_AML_OBJECT_NODE(h, ParentNode)
     THEN Bad
     \* Each of the three branches taken for an object parent returns.
     ELSE IF IS_AML_OBJECT_NODE(h, ParentNode) THEN Bad
     ELSE PropagateReplacement(h4, ParentNode, OldNode, NewNode)

AmlReplaceArgument(h, OldNode, NewNode) ==
  IF \/ ~(IS_AML_DATA_NODE(h, OldNode) \/ IS_AML_OBJECT_NODE(h, OldNode))
     \/ ~(IS_AML_DATA_NODE(h, NewNode) \/ IS_AML_OBJECT_NODE(h, NewNode))
     \/ ~AML_NODE_IS_DETACHED(h, NewNode)
  THEN [Status |-> EFI_INVALID_PARAMETER, h |-> h]
  ELSE IF ~IS_AML_OBJECT_NODE(h, AmlGetParent(h, OldNode))
  THEN [Status |-> EFI_INVALID_PARAMETER, h |-> h]
  ELSE Let(AmlIsNodeFixedArgument(h, OldNode), LAMBDA Index :
         IF Index >= 0
         THEN AmlReplaceFixedArgument(h, AmlGetParent(h, OldNode), Index, NewNode)
         ELSE AmlReplaceVariableArgument(h, OldNode, NewNode))

(***************************************************************************)
(* AmlTree.c: AmlDeleteTree                                                *)
(***************************************************************************)
RECURSIVE AmlDeleteTree(_, _)

\* The for loop over the fixed arguments, from Index.
RECURSIVE AmlDeleteFixedArgs(_, _, _)
AmlDeleteFixedArgs(h, Node, Index) ==
  IF Index >= AmlGetFixedArgumentCount(h, Node) THEN [Status |-> EFI_SUCCESS, h |-> h]
  ELSE Let(h[Node].FixedArgs[Index + 1], LAMBDA Arg :
    IF Arg = NULL THEN [Status |-> EFI_ABORTED, h |-> h]
    ELSE Let(AmlSetFixedArgument([h EXCEPT ![Arg].Parent = NULL], Node, Index, NULL),
             LAMBDA s :
      IF EFI_ERROR(s.Status) THEN [Status |-> s.Status, h |-> s.h]
      ELSE Let(AmlDeleteTree(s.h, Arg), LAMBDA d :
             IF EFI_ERROR(d.Status) THEN d
             ELSE AmlDeleteFixedArgs(d.h, Node, Index + 1))))

\* The while loop over the variable arguments, from NextLink.
RECURSIVE AmlDeleteVarArgs(_, _, _)
AmlDeleteVarArgs(h, StartLink, NextLink) ==
  IF NextLink = StartLink THEN [Status |-> EFI_SUCCESS, h |-> h]
  ELSE Let(AmlDeleteTree(
             [InitializeListHead(RemoveEntryList(h, NextLink), NextLink)
                EXCEPT ![NextLink].Parent = NULL],
             NextLink),
           LAMBDA d :
             IF EFI_ERROR(d.Status) THEN d
             ELSE AmlDeleteVarArgs(d.h, StartLink, ForwardLink(h, NextLink)))

AmlDeleteTree(h, Node) ==
  IF ~IS_AML_HEADER(h, Node) \/ ~AML_NODE_IS_DETACHED(h, Node)
  THEN [Status |-> EFI_INVALID_PARAMETER, h |-> h]
  ELSE Let(IF IS_AML_OBJECT_NODE(h, Node) THEN AmlDeleteFixedArgs(h, Node, 0)
           ELSE [Status |-> EFI_SUCCESS, h |-> h],
           LAMBDA f :
    IF EFI_ERROR(f.Status) THEN f
    ELSE Let(IF AmlNodeGetVariableArgList(f.h, Node) # NULL
             THEN AmlDeleteVarArgs(f.h, AmlNodeGetVariableArgList(f.h, Node),
                                   ForwardLink(f.h, AmlNodeGetVariableArgList(f.h, Node)))
             ELSE f,
             LAMBDA v :
               IF EFI_ERROR(v.Status) THEN v
               ELSE AmlDeleteNode(v.h, Node)))

(***************************************************************************)
(* AmlResourceDataParser.c                                                 *)
(***************************************************************************)
EAmlRdsIdStartDepFunc == 6
EAmlRdsIdEndDepFunc == 7
EAmlRdsIdEndTag == 15

AmlRdGetNext(m, p) == p + AmlRdGetSize(m, p)

\* The pair <<return value, *InFunctionDesc on return>>.
AmlRdCheckFunctionDescNesting(m, p, InFunctionDesc) ==
  IF AmlRdCompareDescId(ReadByte(m, p), AML_RD_BUILD_SMALL_DESC_ID(EAmlRdsIdStartDepFunc))
  THEN <<TRUE, TRUE>>
  ELSE IF AmlRdCompareDescId(ReadByte(m, p), AML_RD_BUILD_SMALL_DESC_ID(EAmlRdsIdEndDepFunc))
  THEN <<InFunctionDesc, FALSE>>
  ELSE <<TRUE, InFunctionDesc>>

\* The while (1) loop, at element address p.  An element that starts past the
\* memory image ends the walk (the read faults or finds no descriptor).
RECURSIVE AmlRdIsResourceDataLoop(_, _, _, _, _)
AmlRdIsResourceDataLoop(m, p, BufferSize, BytesParsed, InFunctionDesc) ==
  LET DataElementSize == AmlRdGetSize(m, p)
      Nesting == AmlRdCheckFunctionDescNesting(m, p, InFunctionDesc)
  IN IF p >= Len(m) THEN FALSE
     ELSE IF AML_RD_IS_LARGE(m, p) /\ ULt(BufferSize, AML_RD_LARGE_HEADER_SIZE) THEN FALSE
     ELSE IF UGt(BytesParsed + DataElementSize, BufferSize) THEN FALSE
     ELSE IF ~Nesting[1] THEN FALSE
     ELSE IF AmlRdCompareDescId(ReadByte(m, p), AML_RD_BUILD_SMALL_DESC_ID(EAmlRdsIdEndTag))
     THEN BufferSize - (BytesParsed + DataElementSize) = 0
     ELSE AmlRdIsResourceDataLoop(m, AmlRdGetNext(m, p), BufferSize,
                                  BytesParsed + DataElementSize, Nesting[2])

AmlRdIsResourceDataBuffer(m, p, BufferSize) ==
  IF BufferSize = 0 THEN FALSE
  ELSE IF AmlRdCompareDescId(ReadByte(m, p), AML_RD_BUILD_SMALL_DESC_ID(EAmlRdsIdEndTag))
  THEN FALSE
  ELSE AmlRdIsResourceDataLoop(m, p, BufferSize, 0, FALSE)

RECURSIVE AmlParseResourceDataLoop(_, _, _, _, _, _)
AmlParseResourceDataLoop(h, m, BufferNode, p, ResourceDataSize, BytesParsed) ==
  IF ~ULt(BytesParsed, ResourceDataSize) THEN [Status |-> EFI_SUCCESS, h |-> h]
  ELSE Let(AmlRdGetSize(m, p), LAMBDA ResourceDataElementSize :
       Let(AmlCreateDataNode(h, EFI_ACPI_NODE_TYPE_RESOURCE_DATA, m, p,
                             ResourceDataElementSize),
           LAMBDA c :
    IF EFI_ERROR(c.Status) THEN [Status |-> c.Status, h |-> c.h]
    ELSE Let(AmlVarListAddTailInternal(c.h, BufferNode, c.Node), LAMBDA a :
      IF EFI_ERROR(a.Status)
      THEN [Status |-> a.Status, h |-> AmlDeleteTree(a.h, c.Node).h]
      ELSE IF ReadByte(m, p) = AML_RD_BUILD_SMALL_DESC_ID(EAmlRdsIdEndTag)
      THEN [Status |-> IF BytesParsed + ResourceDataElementSize # ResourceDataSize
                       THEN EFI_NOT_FOUND ELSE EFI_SUCCESS,
            h |-> a.h]
      ELSE AmlParseResourceDataLoop(a.h, m, BufferNode, AmlRdGetNext(m, p),
                                    ResourceDataSize,
                                    BytesParsed + ResourceDataElementSize))))

AmlParseResourceData(h, m, BufferNode, p, ResourceDataSize) ==
  IF ~AmlNodeCompareOpCode(h, BufferNode, AML_BUFFER_OP, 0) \/ ResourceDataSize = 0
  THEN [Status |-> EFI_INVALID_PARAMETER, h |-> h]
  ELSE AmlParseResourceDataLoop(h, m, BufferNode, p, ResourceDataSize, 0)

(***************************************************************************)
(* AmlOption.c: sizes of the terms of a statement                          *)
(***************************************************************************)
\* AsciiStrSize: the bytes up to and including the NUL; the end of the memory
\* image stands for a NUL.
AsciiStrSize(m, p) ==
  IF p >= Len(m) THEN 1
  ELSE (CHOOSE q \in p..Len(m) :
          /\ q >= Len(m) \/ ReadByte(m, q) = 0
          /\ \A k \in p..(q - 1) : ReadByte(m, k) # 0) - p + 1

RECURSIVE AmlParseOptionTerm(_, _, _, _, _)

\* The while loop of AmlParseOptionCommon for Index = GET_SIZE: the offset
\* reached from Buffer, -1 when a term is rejected.
RECURSIVE AmlParseOptionTerms(_, _, _, _, _, _)
AmlParseOptionTerms(m, e, p, MaxBufferSize, Cur, TermIndex) ==
  IF TermIndex < mAmlByteEncoding[e].MaxIndex /\ ULt(Cur, MaxBufferSize)
  THEN Let(AmlParseOptionTerm(m, e, p + Cur, MaxBufferSize - Cur, TermIndex), LAMBDA t :
         IF EFI_ERROR(t.Status) THEN -1
         ELSE AmlParseOptionTerms(m, e, p, MaxBufferSize, Cur + t.DataSize,
                                  TermIndex + 1))
  ELSE Cur

\* AmlParseOptionCommon with Index = AML_OP_PARSE_INDEX_GET_SIZE.
AmlParseOptionCommon(m, e, p, MaxBufferSize) ==
  LET Bad == [Status |-> EFI_INVALID_PARAMETER, DataSize |-> 0]
      OpLength == IF ReadByte(m, p) = AML_EXT_OP THEN 2 ELSE 1
      Pkg == AmlGetPkgLength(m, p + OpLength)
  IN IF HasAttr(e, AML_IS_NAME_CHAR)
     THEN Let(AmlGetNameStringSize(m, p), LAMBDA Name :
            IF EFI_ERROR(Name.Status) \/ UGt(Name.BufferSize, MaxBufferSize) THEN Bad
            ELSE [Status |-> EFI_SUCCESS, DataSize |-> Name.BufferSize])
     ELSE IF UGt(OpLength, MaxBufferSize) THEN Bad
     ELSE Let(HasAttr(e, AML_HAS_PKG_LENGTH), LAMBDA HasPkg :
       IF HasPkg /\ UGt(OpLength + Pkg.PkgLength, MaxBufferSize) THEN Bad
       ELSE Let(IF HasPkg THEN OpLength + Pkg.PkgLength ELSE MaxBufferSize, LAMBDA Max1 :
            Let(AmlParseOptionTerms(m, e, p, Max1,
                                    OpLength + (IF HasPkg THEN Pkg.Offset ELSE 0),
                                    AML_OP_PARSE_INDEX_GET_TERM1),
                LAMBDA Cur :
                  IF Cur = -1 THEN Bad
                  ELSE IF UGt(Cur, Max1) THEN Bad
                  ELSE [Status |-> EFI_SUCCESS,
                        DataSize |-> IF HasPkg THEN OpLength + Pkg.PkgLength ELSE Cur])))

AmlGetObjectSize(m, e, p, MaxBufferSize) ==
  Let(AmlParseOptionCommon(m, e, p, MaxBufferSize), LAMBDA r :
    IF EFI_ERROR(r.Status) THEN 0 ELSE r.DataSize)

AmlParseOptionTerm(m, e, p, MaxBufferSize, TermIndex) ==
  IF TermIndex > AML_OP_PARSE_INDEX_MAX - 1
  THEN [Status |-> EFI_NOT_FOUND, DataType |-> AML_NONE, DataSize |-> 0]
  ELSE
  Let(mAmlByteEncoding[e].Format[TermIndex + 1], LAMBDA Format :
  Let(AmlGetNameStringSize(m, p), LAMBDA Name :
  Let(AmlGetByOpByte(m, p), LAMBDA Child :
  Let(HasAttr(Child, AML_IS_NAME_CHAR), LAMBDA ChildIsName :
  Let(AmlGetObjectSize(m, Child, p, MaxBufferSize), LAMBDA ObjectSize :
    LET Bad == [Status |-> EFI_INVALID_PARAMETER, DataType |-> AML_NONE, DataSize |-> 0]
        Ok == CASE Format = AML_NAME -> ~EFI_ERROR(Name.Status)
                [] Format = AML_OBJECT ->
                     /\ Child # 0
                     /\ IF ChildIsName THEN ~EFI_ERROR(Name.Status) ELSE ObjectSize # 0
                [] OTHER -> Format <= AML_OBJECT
        DataType == IF Format = AML_OBJECT /\ ChildIsName THEN AML_NAME ELSE Format
        DataSize == CASE Format = AML_UINT8 -> 1
                      [] Format = AML_UINT16 -> 2
                      [] Format = AML_UINT32 -> 4
                      [] Format = AML_UINT64 -> 8
                      [] Format = AML_STRING -> AsciiStrSize(m, p)
                      [] Format = AML_NAME -> Name.BufferSize
                      [] Format = AML_OBJECT ->
                           IF ChildIsName THEN Name.BufferSize ELSE ObjectSize
                      [] OTHER -> 0
    IN IF ~Ok THEN Bad
       ELSE IF UGt(DataSize, MaxBufferSize) THEN Bad
       ELSE [Status |-> EFI_SUCCESS, DataType |-> DataType, DataSize |-> DataSize])))))

(***************************************************************************)
(* AmlParser.c                                                             *)
(* Each operator returns the heap after the call next to the outputs.      *)
(***************************************************************************)
RECURSIVE AmlParseStatements(_, _, _, _)

\* The returns of AmlParseStatements: before a node exists, through
\* error_handler (the node built so far is deleted), and at exit_handler.
ParseFail(Status, h) == [Status |-> Status, h |-> h, Offset |-> 0, Node |-> NULL]
ParseError(Status, h, Node) == ParseFail(Status, AmlDeleteTree(h, Node).h)
ParseExit(h, ParsedBytes, Node) ==
  [Status |-> EFI_SUCCESS, h |-> h, Offset |-> ParsedBytes, Node |-> Node]

\* A fallback that reports success and appends nothing, for comparison.
NoRawNode(h, m, Node, p, MaxBufferSize) == [Status |-> EFI_SUCCESS, h |-> h]

\* A single RAW data node holding the whole byte list.
AmlParseRawByteList(h, m, Node, p, MaxBufferSize) ==
  Let(AmlCreateDataNode(h, EFI_ACPI_NODE_TYPE_RAW, m, p, MaxBufferSize), LAMBDA c :
    IF EFI_ERROR(c.Status) THEN [Status |-> c.Status, h |-> c.h]
    ELSE Let(AmlVarListAddTailInternal(c.h, Node, c.Node), LAMBDA a :
           IF EFI_ERROR(a.Status)
           THEN [Status |-> a.Status, h |-> AmlDeleteTree(a.h, c.Node).h]
           ELSE [Status |-> EFI_SUCCESS, h |-> a.h]))

AmlParseByteList(h, m, Node, p, MaxBufferSize) ==
  IF ~AmlObjectNodeHasAttribute(h, Node, AML_HAS_BYTE_LIST) \/ MaxBufferSize = 0
  THEN [Status |-> EFI_INVALID_PARAMETER, h |-> h, Offset |-> 0]
  ELSE Let(IF mAmlByteEncoding[h[Node].AmlByteEncoding].OpCode = AML_BUFFER_OP
              /\ AmlRdIsResourceDataBuffer(m, p, MaxBufferSize)
           THEN AmlParseResourceData(h, m, Node, p, MaxBufferSize)
           ELSE AmlParseRawByteList(h, m, Node, p, MaxBufferSize),
           LAMBDA r :
             IF EFI_ERROR(r.Status) THEN [Status |-> r.Status, h |-> r.h, Offset |-> 0]
             ELSE [Status |-> EFI_SUCCESS, h |-> r.h, Offset |-> MaxBufferSize])

AmlParseNameString(h, m, p, MaxBufferSize) ==
  LET Bad == [Status |-> EFI_INVALID_PARAMETER, h |-> h, Offset |-> 0, Node |-> NULL]
  IN IF ~HasAttr(AmlGetByOpByte(m, p), AML_IS_NAME_CHAR) \/ MaxBufferSize = 0 THEN Bad
     ELSE Let(AmlGetNameStringSize(m, p), LAMBDA Name :
       IF EFI_ERROR(Name.Status) \/ UGt(Name.BufferSize, MaxBufferSize) THEN Bad
       ELSE Let(AmlCreateDataNode(h, AML_NAME, m, p, Name.BufferSize),
                LAMBDA c :
                  IF EFI_ERROR(c.Status)
                  THEN [Status |-> c.Status, h |-> c.h, Offset |-> 0, Node |-> NULL]
                  ELSE [Status |-> EFI_SUCCESS, h |-> c.h, Offset |-> Name.BufferSize,
                        Node |-> c.Node]))

\* A local variable of the C functions below is a parameter of the operator
\* that holds the rest of the function: it is computed when the rest first
\* reads it, and once.  The arms of a CASE are the returns of the C function
\* in the order the function reaches them; the first arm whose guard holds is
\* the one taken.

\* The check that follows the while loop of AmlParseFixedArguments.
AmlParseFixedArgumentsDone(h, MaxBufferSize, ParsedBytes) ==
  IF UGt(ParsedBytes, MaxBufferSize)
  THEN [Status |-> EFI_NOT_FOUND, h |-> h, Offset |-> 0]
  ELSE [Status |-> EFI_SUCCESS, h |-> h, Offset |-> ParsedBytes]

\* The while loop of AmlParseFixedArguments.
RECURSIVE AmlParseFixedArgumentsLoop(_, _, _, _, _, _, _)

\* One turn of the loop: t is what AmlParseOptionTerm returned, c the node
\* created for the term, a the outcome of AmlSetFixedArgument.
AmlParseFixedArgumentsTurn(h, m, Node, p, MaxBufferSize, TermIndex, ParsedBytes, t, c, a) ==
  CASE ~(TermIndex < AmlGetFixedArgumentCount(h, Node) /\ ULt(ParsedBytes, MaxBufferSize)) ->
         AmlParseFixedArgumentsDone(h, MaxBufferSize, ParsedBytes)
    [] EFI_ERROR(t.Status) -> [Status |-> EFI_INVALID_PARAMETER, h |-> h, Offset |-> 0]
    [] t.DataType = AML_NONE -> AmlParseFixedArgumentsDone(h, MaxBufferSize, ParsedBytes)
    [] EFI_ERROR(c.Status) -> [Status |-> c.Status, h |-> c.h, Offset |-> 0]
    [] EFI_ERROR(a.Status) ->
         [Status |-> a.Status, h |-> AmlDeleteTree(a.h, c.Node).h, Offset |-> 0]
    [] OTHER -> AmlParseFixedArgumentsLoop(a.h, m, Node, p, MaxBufferSize, TermIndex + 1,
                                           ParsedBytes + t.DataSize)

AmlParseFixedArgumentsNode(h, m, Node, p, MaxBufferSize, TermIndex, ParsedBytes, t, c) ==
  AmlParseFixedArgumentsTurn(h, m, Node, p, MaxBufferSize, TermIndex, ParsedBytes, t, c,
                             AmlSetFixedArgument(c.h, Node, TermIndex, c.Node))

AmlParseFixedArgumentsTerm(h, m, Node, p, MaxBufferSize, TermIndex, ParsedBytes, t) ==
  AmlParseFixedArgumentsNode(h, m, Node, p, MaxBufferSize, TermIndex, ParsedBytes, t,
                             IF t.DataType = AML_OBJECT
                             THEN AmlParseStatements(h, m, p + ParsedBytes, t.DataSize)
                             ELSE AmlCreateDataNode(h, AmlTypeToAcpiType(t.DataType), m,
                                                    p + ParsedBytes, t.DataSize))

AmlParseFixedArgumentsLoop(h, m, Node, p, MaxBufferSize, TermIndex, ParsedBytes) ==
  AmlParseFixedArgumentsTerm(h, m, Node, p, MaxBufferSize, TermIndex, ParsedBytes,
                             AmlParseOptionTerm(m, h[Node].AmlByteEncoding, p + ParsedBytes,
                                                MaxBufferSize - ParsedBytes, TermIndex))

\* A parse of fixed arguments that consumes nothing and fills no slot.
SkipFixedArguments(h, m, Node, p, MaxBufferSize) ==
  [Status |-> EFI_SUCCESS, h |-> h, Offset |-> 0]

AmlParseFixedArguments(h, m, Node, p, MaxBufferSize) ==
  IF ~IS_AML_OBJECT_NODE(h, Node) \/ MaxBufferSize = 0
  THEN [Status |-> EFI_INVALID_PARAMETER, h |-> h, Offset |-> 0]
  ELSE AmlParseFixedArgumentsLoop(h, m, Node, p, MaxBufferSize,
                                  AML_OP_PARSE_INDEX_GET_TERM1, 0)

\* The while loop of AmlParseVariableArguments: every child is parsed with
\* the MaxBufferSize the list was given.
RECURSIVE AmlParseVariableArgumentsLoop(_, _, _, _, _, _)

\* One turn of the loop: c is what AmlParseStatements returned, a the outcome
\* of AmlVarListAddTailInternal.
AmlParseVariableArgumentsTurn(h, m, Node, p, MaxBufferSize, ParsedBytes, c, a) ==
  CASE ~ULt(ParsedBytes, MaxBufferSize) ->
         [Status |-> EFI_SUCCESS, h |-> h, Offset |-> ParsedBytes]
    [] EFI_ERROR(c.Status) -> [Status |-> c.Status, h |-> c.h, Offset |-> 0]
    [] EFI_ERROR(a.Status) ->
         [Status |-> a.Status, h |-> AmlDeleteTree(a.h, c.Node).h, Offset |-> 0]
    [] OTHER -> AmlParseVariableArgumentsLoop(a.h, m, Node, p, MaxBufferSize,
                                              ParsedBytes + c.Offset)

AmlParseVariableArgumentsNode(h, m, Node, p, MaxBufferSize, ParsedBytes, c) ==
  AmlParseVariableArgumentsTurn(h, m, Node, p, MaxBufferSize, ParsedBytes, c,
                                AmlVarListAddTailInternal(c.h, Node, c.Node))

AmlParseVariableArgumentsLoop(h, m, Node, p, MaxBufferSize, ParsedBytes) ==
  AmlParseVariableArgumentsNode(h, m, Node, p, MaxBufferSize, ParsedBytes,
                                AmlParseStatements(h, m, p + ParsedBytes, MaxBufferSize))

AmlParseVariableArguments(h, m, Node, p, MaxBufferSize) ==
  IF ~AmlObjectNodeHasAttribute(h, Node, AML_HAS_CHILD_OBJ) \/ MaxBufferSize = 0
  THEN [Status |-> EFI_INVALID_PARAMETER, h |-> h, Offset |-> 0]
  ELSE AmlParseVariableArgumentsLoop(h, m, Node, p, MaxBufferSize, 0)

\* The locals of AmlParseStatements for the opcode e found at address p:
\* the width of the opcode, the PkgLength field behind it, the bytes the
\* statement may use and the bytes parsed once the PkgLength field is read.
StatementOpLength(m, p) == IF ReadByte(m, p) = AML_EXT_OP THEN 2 ELSE 1
StatementPkg(m, p) == AmlGetPkgLength(m, p + StatementOpLength(m, p))
\* The length behind the PkgLength field alone, for comparison.
LengthBehindField(m, p, e) ==
  IF HasAttr(e, AML_HAS_PKG_LENGTH)
  THEN StatementPkg(m, p).PkgLength - StatementPkg(m, p).Offset
  ELSE 0
StatementPkgLength(m, p, e) ==
  IF HasAttr(e, AML_HAS_PKG_LENGTH) THEN StatementPkg(m, p).PkgLength ELSE 0
StatementMaxBufferSize(m, p, e, MaxBufferSize0) ==
  IF HasAttr(e, AML_HAS_PKG_LENGTH)
  THEN StatementOpLength(m, p) + StatementPkg(m, p).PkgLength
  ELSE MaxBufferSize0
StatementParsed4(m, p, e) ==
  IF HasAttr(e, AML_HAS_PKG_LENGTH)
  THEN StatementOpLength(m, p) + StatementPkg(m, p).Offset
  ELSE StatementOpLength(m, p)

\* AmlParseStatements with its locals: e the table entry of the opcode, o the
\* object node created, f, v and b what the parsing of the fixed arguments,
\* of the variable arguments and of the byte list returned.
AmlParseStatementsReturn(h, m, p, MaxBufferSize0, e, o, f, v, b) ==
  CASE MaxBufferSize0 = 0 -> ParseFail(EFI_INVALID_PARAMETER, h)
    [] e = 0 -> ParseFail(EFI_NOT_FOUND, h)
    [] HasAttr(e, AML_IS_NAME_CHAR) -> AmlParseNameString(h, m, p, MaxBufferSize0)
    [] UGt(StatementOpLength(m, p), MaxBufferSize0) -> ParseFail(EFI_INVALID_PARAMETER, h)
    [] HasAttr(e, AML_HAS_PKG_LENGTH) /\ StatementPkg(m, p).Offset = 0 ->
         ParseFail(EFI_INVALID_PARAMETER, h)
    [] HasAttr(e, AML_HAS_PKG_LENGTH)
       /\ UGt(StatementOpLength(m, p) + StatementPkgLength(m, p, e), MaxBufferSize0) ->
         ParseFail(EFI_INVALID_PARAMETER, h)
    [] EFI_ERROR(o.Status) -> ParseFail(o.Status, o.h)
    [] StatementMaxBufferSize(m, p, e, MaxBufferSize0) - StatementParsed4(m, p, e) = 0 ->
         ParseExit(o.h, StatementParsed4(m, p, e), o.Node)
    [] EFI_ERROR(f.Status) -> ParseError(f.Status, f.h, o.Node)
    [] StatementMaxBufferSize(m, p, e, MaxBufferSize0)
       - (StatementParsed4(m, p, e) + f.Offset) = 0 ->
         ParseExit(f.h, StatementParsed4(m, p, e) + f.Offset, o.Node)
    [] EFI_ERROR(v.Status) -> ParseError(v.Status, v.h, o.Node)
    [] StatementMaxBufferSize(m, p, e, MaxBufferSize0)
       - (StatementParsed4(m, p, e) + f.Offset + v.Offset) = 0 ->
         ParseExit(v.h, StatementParsed4(m, p, e) + f.Offset + v.Offset, o.Node)
    [] ~HasAttr(e, AML_HAS_BYTE_LIST) ->
         ParseExit(v.h, StatementParsed4(m, p, e) + f.Offset + v.Offset, o.Node)
    [] EFI_ERROR(b.Status) -> ParseError(b.Status, b.h, o.Node)
    [] OTHER -> ParseExit(b.h, StatementParsed4(m, p, e) + f.Offset + v.Offset + b.Offset,
                          o.Node)

AmlParseStatementsByteList(h, m, p, MaxBufferSize0, e, o, f, v) ==
  AmlParseStatementsReturn(
    h, m, p, MaxBufferSize0, e, o, f, v,
    AmlParseByteList(v.h, m, o.Node, p + StatementParsed4(m, p, e) + f.Offset + v.Offset,
                     StatementMaxBufferSize(m, p, e, MaxBufferSize0)
                     - (StatementParsed4(m, p, e) + f.Offset + v.Offset)))

AmlParseStatementsVarArgs(h, m, p, MaxBufferSize0, e, o, f) ==
  AmlParseStatementsByteList(
    h, m, p, MaxBufferSize0, e, o, f,
    IF HasAttr(e, AML_HAS_CHILD_OBJ)
    THEN AmlParseVariableArguments(f.h, m, o.Node, p + StatementParsed4(m, p, e) + f.Offset,
                                   StatementMaxBufferSize(m, p, e, MaxBufferSize0)
                                   - (StatementParsed4(m, p, e) + f.Offset))
    ELSE [Status |-> EFI_SUCCESS, h |-> f.h, Offset |-> 0])

AmlParseStatementsFixedArgs(h, m, p, MaxBufferSize0, e, o) ==
  AmlParseStatementsVarArgs(
    h, m, p, MaxBufferSize0, e, o,
    AmlParseFixedArguments(o.h, m, o.Node, p + StatementParsed4(m, p, e),
                           StatementMaxBufferSize(m, p, e, MaxBufferSize0)
                           - StatementParsed4(m, p, e)))

AmlParseStatementsNode(h, m, p, MaxBufferSize0, e) ==
  AmlParseStatementsFixedArgs(h, m, p, MaxBufferSize0, e,
                              AmlCreateObjectNode(h, e, StatementPkgLength(m, p, e)))

AmlParseStatements(h, m, p, MaxBufferSize0) ==
  AmlParseStatementsNode(h, m, p, MaxBufferSize0, AmlGetByOpByte(m, p))

\* The main parser loop at offset p of the definition block m.
RECURSIVE AmlParseDefinitionBlockLoop(_, _, _, _, _)

\* One turn of the loop: c is what AmlParseStatements returned, a the outcome
\* of AmlVarListAddTailInternal.
AmlParseDefinitionBlockTurn(h, m, Root, p, BytesToParse, c, a) ==
  CASE BytesToParse = 0 -> [Status |-> EFI_SUCCESS, h |-> h]
    [] EFI_ERROR(c.Status) -> [Status |-> c.Status, h |-> c.h]
    [] EFI_ERROR(a.Status) -> [Status |-> a.Status, h |-> AmlDeleteTree(a.h, c.Node).h]
    [] OTHER -> AmlParseDefinitionBlockLoop(a.h, m, Root, p + c.Offset,
                                            BytesToParse - c.Offset)

AmlParseDefinitionBlockNode(h, m, Root, p, BytesToParse, c) ==
  AmlParseDefinitionBlockTurn(h, m, Root, p, BytesToParse, c,
                              AmlVarListAddTailInternal(c.h, Root, c.Node))

AmlParseDefinitionBlockLoop(h, m, Root, p, BytesToParse) ==
  AmlParseDefinitionBlockNode(h, m, Root, p, BytesToParse,
                              AmlParseStatements(h, m, p, BytesToParse))

AmlParseDefinitionBlock(h, DefinitionBlock) ==
  Let(AmlCreateRootNode(h, SubSeq(DefinitionBlock, 1, SDT_HEADER_SIZE)), LAMBDA r :
    IF EFI_ERROR(r.Status) THEN [Status |-> r.Status, h |-> r.h, Root |-> NULL]
    ELSE Let(AmlParseDefinitionBlockLoop(
               r.h, DefinitionBlock, r.Node, SDT_HEADER_SIZE,
               HeaderLength(SubSeq(DefinitionBlock, 1, SDT_HEADER_SIZE)) - SDT_HEADER_SIZE),
             LAMBDA l :
               IF EFI_ERROR(l.Status)
               THEN [Status |-> l.Status, h |-> AmlDeleteTree(l.h, r.Node).h,
                     Root |-> NULL]
               ELSE [Status |-> EFI_SUCCESS, h |-> l.h, Root |-> r.Node]))

(***************************************************************************)
(* AmlNodeInterface.c: AmlUpdateRootNode                                   *)
(***************************************************************************)
\* 'S' 'S' 'D' 'T'
EFI_ACPI_6_3_SECONDARY_SYSTEM_DESCRIPTION_TABLE_SIGNATURE == <<83, 83, 68, 84>>

AmlUpdateRootNode(h, RootNode, SdtHeader) ==
  IF ~IS_AML_ROOT_NODE(h, RootNode)
     \/ SubSeq(SdtHeader, 1, 4) # EFI_ACPI_6_3_SECONDARY_SYSTEM_DESCRIPTION_TABLE_SIGNATURE
  THEN [Status |-> EFI_INVALID_PARAMETER, h |-> h]
  ELSE Let(AmlComputeSize([h EXCEPT ![RootNode].SdtHeader = SdtHeader], RootNode, 0),
           LAMBDA c :
             IF EFI_ERROR(c.Status)
             THEN [Status |-> c.Status, h |-> [h EXCEPT ![RootNode].SdtHeader = SdtHeader]]
             ELSE [Status |-> EFI_SUCCESS,
                   h |-> [h EXCEPT ![RootNode].SdtHeader =
                            SetHeaderLength(SdtHeader, c.Size)]])

(***************************************************************************)
(* AmlStream.c: a stream is the memory at Buffer with MaxSize and DataSize *)
(***************************************************************************)
AmlStreamInit(Buffer, Mem, Size) ==
  IF Buffer = NULL \/ Size = 0
  THEN [Status |-> EFI_INVALID_PARAMETER, Mem |-> Mem, MaxSize |-> 0, DataSize |-> 0]
  ELSE [Status |-> EFI_SUCCESS, Mem |-> Mem, MaxSize |-> Size, DataSize |-> 0]

AmlStreamGetFreeSpace(Stream) ==
  IF Stream.DataSize > Stream.MaxSize THEN 0 ELSE Stream.MaxSize - Stream.DataSize

\* CopyMem at Buffer + DataSize; the memory image is as long as every store
\* of the call needs.
AmlStreamPutBytes(Stream, Bytes) ==
  IF AmlStreamGetFreeSpace(Stream) < Len(Bytes)
  THEN [Stream EXCEPT !.Status = EFI_OUT_OF_RESOURCES]
  ELSE [Stream EXCEPT
          !.Status = EFI_SUCCESS,
          !.Mem = SubSeq(@, 1, Stream.DataSize) \o Bytes
                  \o SubSeq(@, Stream.DataSize + Len(Bytes) + 1, Len(@)),
          !.DataSize = @ + Len(Bytes)]

(***************************************************************************)
(* AmlUtility.c: AcpiPlatformChecksum                                      *)
(***************************************************************************)
CHECKSUM_OFFSET == 9

\* Length is read from the table in memory; the sum runs over Length bytes
\* from the start of the table, wherever the written table ends.
AcpiPlatformChecksum(Mem) ==
  LET Size == LeValue(ReadBytes(Mem, 4, 4))
      Zeroed == [Mem EXCEPT ![CHECKSUM_OFFSET + 1] = 0]
      Sum == U8(SumBytes(ReadBytes(Zeroed, 0, Size)))
  IN [Zeroed EXCEPT ![CHECKSUM_OFFSET + 1] = U8(MAX_UINT8 - Sum + 1)]

(***************************************************************************)
(* AmlSerialize.c                                                          *)
(***************************************************************************)
\* The bytes the callback puts for a non-NULL Node.
AmlSerializeNodeBytes(h, Node) ==
  IF IS_AML_DATA_NODE(h, Node) THEN ReadBytes(h[Node].Buffer, 0, h[Node].Size)
  ELSE IF IS_AML_OBJECT_NODE(h, Node)
  THEN Let(mAmlByteEncoding[h[Node].AmlByteEncoding], LAMBDA e :
         <<e.OpCode>>
         \o (IF e.OpCode = AML_EXT_OP THEN <<e.SubOpCode>> ELSE <<>>)
         \o (IF AmlObjectNodeHasAttribute(h, Node, AML_HAS_PKG_LENGTH)
             THEN AmlSetPkgLength(h[Node].PkgLen) ELSE <<>>))
  ELSE <<>>

\* AmlSerializeNodeCallback over the nodes AmlEnumTree visits: the
\* enumeration stops at the first call that fails.
RECURSIVE AmlSerializeNodes(_, _, _)
AmlSerializeNodes(h, Nodes, Stream) ==
  IF Nodes = <<>> THEN Stream
  ELSE IF Head(Nodes) = NULL THEN [Stream EXCEPT !.Status = EFI_INVALID_PARAMETER]
  ELSE IF Head(Nodes) = STACK_EXHAUSTED THEN [Stream EXCEPT !.Status = FAULT]
  ELSE Let(AmlStreamPutBytes(Stream, AmlSerializeNodeBytes(h, Head(Nodes))), LAMBDA s1 :
         IF EFI_ERROR(s1.Status) THEN s1
         ELSE AmlSerializeNodes(h, Tail(Nodes), s1))

\* Buffer is the address handed in (NULL or not), Mem the memory found at a
\* non-NULL Buffer, BufferSize the content of *BufferSize.  Written is the
\* number of bytes the call stored at Buffer.
AmlSerializeTree(h, RootNode, Buffer, Mem, BufferSize) ==
  LET Ret(Status, m, Size, Written) ==
        [Status |-> Status, Mem |-> m, BufferSize |-> Size, Written |-> Written]
  IN IF ~IS_AML_ROOT_NODE(h, RootNode) THEN Ret(EFI_INVALID_PARAMETER, Mem, BufferSize, 0)
     ELSE Let(AmlComputeSize(h, RootNode, 0), LAMBDA c :
       IF EFI_ERROR(c.Status) THEN Ret(c.Status, Mem, BufferSize, 0)
       ELSE IF c.Size + SDT_HEADER_SIZE < BufferSize \/ Buffer = NULL
       THEN Ret(EFI_SUCCESS, Mem, c.Size + SDT_HEADER_SIZE, 0)
       ELSE Let(AmlStreamInit(Buffer, Mem, c.Size + SDT_HEADER_SIZE), LAMBDA s0 :
         IF EFI_ERROR(s0.Status) THEN Ret(s0.Status, Mem, BufferSize, 0)
         ELSE Let(AmlStreamPutBytes(s0, h[RootNode].SdtHeader), LAMBDA s1 :
           IF EFI_ERROR(s1.Status) THEN Ret(s1.Status, s1.Mem, BufferSize, s1.DataSize)
           ELSE Let(AmlSerializeNodes(h, AmlEnumTree(h, RootNode), s1), LAMBDA s2 :
                  IF EFI_ERROR(s2.Status)
                  THEN Ret(s2.Status, s2.Mem, BufferSize, s2.DataSize)
                  ELSE Ret(EFI_SUCCESS, AcpiPlatformChecksum(s2.Mem), BufferSize,
                           s2.DataSize)))))

(***************************************************************************)
(* Definition blocks handed to the parser                                  *)
(***************************************************************************)
\* A 36-byte header (signature SSDT, revision 2) in front of Body, with the
\* Length given and the checksum that makes the first Length bytes sum to 0.
MkBlockWithLength(Body, Length) ==
  LET Raw == EFI_ACPI_6_3_SECONDARY_SYSTEM_DESCRIPTION_TABLE_SIGNATURE
             \o LeBytes(Length, 4) \o <<2, 0>>
             \o [i \in 1..(SDT_HEADER_SIZE - 10) |-> 0] \o Body
      Sum == U8(SumBytes(ReadBytes(Raw, 0, Length)))
  IN [Raw EXCEPT ![CHECKSUM_OFFSET + 1] = U8(MAX_UINT8 - Sum + 1)]

MkBlock(Body) == MkBlockWithLength(Body, SDT_HEADER_SIZE + Len(Body))

\* Scope (\_SB_) { Device (DEV0) { Name (_UID, Zero) } }
ScopeDeviceBody ==
  <<16, 19, 92, 95, 83, 66, 95, 91, 130, 11, 68, 69, 86, 48, 8, 95, 85, 73, 68, 0>>
\* Buffer (5) { IRQ descriptor, end tag }
ResourceBufferBody == <<17, 8, 10, 5, 34, 1, 0, 121, 0>>
\* Buffer (2) { 0xAA, 0xBB }
RawBufferBody == <<17, 5, 10, 2, 170, 187>>
\* Package (2) { 1, 2 }
PackageBody == <<18, 6, 2, 10, 1, 10, 2>>
\* Else { Noop } with the package length 3 encoded on two bytes
WidePkgLenBody == <<161, 67, 0, 163>>
\* Scope (ABCD) of package length 10 whose content { Zero, Name (EFGH, Zero) }
\* needs 12 bytes
OverrunScopeBody == <<16, 10, 65, 66, 67, 68, 0, 8, 69, 70, 71, 72, 0>>
\* A Name opcode at the very end of the table
LoneNameBody == <<8>>
\* Package (255) { }
FullPackageBody == <<18, 2, 255>>
\* Scope (ABCD) { Name (EFGH, "AAA...") } of package length 63
Scope63Body ==
  <<16, 63, 65, 66, 67, 68, 8, 69, 70, 71, 72, 13>> \o [i \in 1..51 |-> 65] \o <<0>>

\* Scope (\_SB_) { Device (DEV0) { Name (_UID, 0) } } with the integer encoded
\* as a BytePrefix and one byte
ScopeDeviceByteBody ==
  <<16, 20, 92, 95, 83, 66, 95, 91, 130, 12, 68, 69, 86, 48, 8, 95, 85, 73, 68, 10, 0>>

Bodies ==
  <<ScopeDeviceBody, ResourceBufferBody, RawBufferBody, PackageBody, WidePkgLenBody,
    OverrunScopeBody, LoneNameBody, FullPackageBody, Scope63Body, ScopeDeviceByteBody>>

Blocks == [i \in 1..Len(Bodies) |-> MkBlock(Bodies[i])]

\* The data a caller creates nodes from and updates nodes with.
CallerData ==
  <<[DataType |-> EFI_ACPI_NODE_TYPE_RAW, Data |-> <<163>>],
    [DataType |-> EFI_ACPI_NODE_TYPE_UINT, Data |-> <<44, 1>>]>>

\* The header a caller hands to AmlUpdateRootNode.
CallerHeader == SubSeq(MkBlockWithLength(<<>>, SDT_HEADER_SIZE), 1, SDT_HEADER_SIZE)

\* Bytes of memory modelled behind a caller's output buffer.
AdjacentBytes == 2
\* What the memory behind the output buffer may hold.
AdjacentFill == {0, 85}

\* Operations a behaviour performs after the decode.
MaxOps == 2

(***************************************************************************)
(* State                                                                   *)
(***************************************************************************)
VARIABLES
  heap,      \* the node pool
  Root,      \* the tree handle the caller holds, NULL if none
  Block,     \* index in Blocks of the definition block decoded, 0 before
  Op,        \* the last call: name, returned status, node arguments
  Prev,      \* the node pool before the last call
  Ser,       \* the arguments and results of the last AmlSerializeTree call
  Steps,     \* calls made after the decode
  Pure,      \* the last call of a function that touches no node: input, output
  Failed,    \* some decode or edit call made so far returned an error
  Freed      \* some call made after the decode freed a node

vars == <<heap, Root, Block, Op, Prev, Ser, Steps, Pure, Failed, Freed>>

NoSer ==
  [Buffer |-> NULL, Mem0 |-> <<>>, BufferSize0 |-> 0, Mem |-> <<>>,
   BufferSize |-> 0, Written |-> 0]

Call(Name, Status, Node, Arg) ==
  [Name |-> Name, Status |-> Status, Node |-> Node, Arg |-> Arg]

\* The handles a caller can pass: the live nodes and NULL.
Handles == Allocated(heap) \cup {NULL}

\* Of is the value the chain of calls started from.
NoPure == [Name |-> "None", Of |-> 0, In |-> <<>>, Out |-> <<>>]

\* The state before any call on the node pool.
NoTree ==
  /\ heap = EmptyHeap
  /\ Root = NULL
  /\ Block = 0
  /\ Op = Call("Init", EFI_SUCCESS, NULL, NULL)
  /\ Prev = EmptyHeap
  /\ Ser = NoSer
  /\ Steps = 0
  /\ Failed = FALSE
  /\ Freed = FALSE

Init ==
  /\ NoTree
  /\ Pure = NoPure

ParseDefinitionBlock(b) ==
  /\ Block = 0
  /\ \E r \in {AmlParseDefinitionBlock(heap, Blocks[b])} :
     /\ Block' = b
     /\ heap' = r.h
     /\ Root' = r.Root
     /\ Op' = Call("AmlParseDefinitionBlock", r.Status, r.Root, NULL)
     /\ Prev' = heap
     /\ Failed' = EFI_ERROR(r.Status)
     /\ Freed' = FALSE
     /\ UNCHANGED <<Ser, Steps, Pure>>

\* A call that left the pool as it found it is the last one followed: the
\* calls after it act on the same pool as the calls in its place.
MayCall == Block # 0 /\ Steps < MaxOps /\ ~(Steps > 0 /\ heap = Prev)

\* The frame of a call on the tree: r holds the status returned and the pool
\* after the call.
TreeCall(Name, r, Node, Arg) ==
  /\ MayCall
  /\ Steps' = Steps + 1
  /\ heap' = r.h
  /\ Prev' = heap
  /\ Op' = Call(Name, r.Status, Node, Arg)
  /\ Failed' = (Failed \/ EFI_ERROR(r.Status))
  /\ Freed' = (Freed \/ Allocated(heap) \ Allocated(r.h) # {})
  /\ Ser' = NoSer
  /\ UNCHANGED Pure

CreateDataNode(d) ==
  /\ TreeCall("AmlCreateDataNode",
              AmlCreateDataNode(heap, CallerData[d].DataType, CallerData[d].Data, 0,
                                Len(CallerData[d].Data)),
              AllocateZeroPool(heap), d)
  /\ UNCHANGED <<Root, Block>>

VarListAddHead(ParentNode, NewNode) ==
  /\ TreeCall("AmlVarListAddHead", AmlVarListAddHead(heap, ParentNode, NewNode),
              ParentNode, NewNode)
  /\ UNCHANGED <<Root, Block>>

VarListAddTail(ParentNode, NewNode) ==
  /\ TreeCall("AmlVarListAddTail", AmlVarListAddTail(heap, ParentNode, NewNode),
              ParentNode, NewNode)
  /\ UNCHANGED <<Root, Block>>

VarListAddAfter(Node, NewNode) ==
  /\ TreeCall("AmlVarListAddAfter", AmlVarListAddAfter(heap, Node, NewNode),
              Node, NewNode)
  /\ UNCHANGED <<Root, Block>>

VarListAddBefore(Node, NewNode) ==
  /\ TreeCall("AmlVarListAddBefore", AmlVarListAddBefore(heap, Node, NewNode),
              Node, NewNode)
  /\ UNCHANGED <<Root, Block>>

RemoveNodeFromVarArgList(Node) ==
  /\ TreeCall("AmlRemoveNodeFromVarArgList", AmlRemoveNodeFromVarArgList(heap, Node),
              Node, NULL)
  /\ UNCHANGED <<Root, Block>>

ReplaceArgument(OldNode, NewNode) ==
  /\ TreeCall("AmlReplaceArgument", AmlReplaceArgument(heap, OldNode, NewNode),
              OldNode, NewNode)
  /\ UNCHANGED <<Root, Block>>

UpdateDataNode(DataNode, d) ==
  /\ TreeCall("AmlUpdateDataNode",
              AmlUpdateDataNode(heap, DataNode, CallerData[d].Data,
                                Len(CallerData[d].Data)),
              DataNode, d)
  /\ UNCHANGED <<Root, Block>>

UpdateRootNode(RootNode) ==
  /\ TreeCall("AmlUpdateRootNode", AmlUpdateRootNode(heap, RootNode, CallerHeader),
              RootNode, NULL)
  /\ UNCHANGED <<Root, Block>>

\* The handle the caller holds is dropped once its tree is deleted.
DeleteTree(Node) ==
  /\ TreeCall("AmlDeleteTree", AmlDeleteTree(heap, Node), Node, NULL)
  /\ Root' = IF Node = Root /\ ~EFI_ERROR(Op'.Status) THEN NULL ELSE Root
  /\ UNCHANGED Block

DeleteNode(Node) ==
  /\ TreeCall("AmlDeleteNode", AmlDeleteNode(heap, Node), Node, NULL)
  /\ Root' = IF Node = Root /\ ~EFI_ERROR(Op'.Status) THEN NULL ELSE Root
  /\ UNCHANGED Block

\* The size AmlSerializeTree needs for the tree of RootNode.
TableSizeOf(h, RootNode) == AmlComputeSize(h, RootNode, 0).Size + SDT_HEADER_SIZE

\* A zeroed buffer of BufferSize bytes and the memory behind it.
CallerBuffer(BufferSize, Fill) ==
  [i \in 1..(BufferSize + AdjacentBytes) |-> IF i <= BufferSize THEN 0 ELSE Fill]

SerializeCall(Buffer, Mem0, BufferSize0, r) ==
  /\ MayCall
  /\ Steps' = Steps + 1
  /\ Prev' = heap
  /\ Op' = Call("AmlSerializeTree", r.Status, Root, NULL)
  /\ Ser' = [Buffer |-> Buffer, Mem0 |-> Mem0, BufferSize0 |-> BufferSize0,
             Mem |-> r.Mem, BufferSize |-> r.BufferSize, Written |-> r.Written]
  /\ UNCHANGED <<heap, Root, Block, Pure, Failed, Freed>>

\* The caller passes no buffer.
SerializeTreeNoBuffer ==
  SerializeCall(NULL, <<>>, 0, AmlSerializeTree(heap, Root, NULL, <<>>, 0))

\* The caller passes a zeroed buffer of BufferSize bytes; Fill is what lies
\* behind the buffer.
SerializeTree(BufferSize, Fill) ==
  SerializeCall(1, CallerBuffer(BufferSize, Fill), BufferSize,
                AmlSerializeTree(heap, Root, 1, CallerBuffer(BufferSize, Fill),
                                 BufferSize))

Next ==
  \/ \E b \in 1..Len(Blocks) : ParseDefinitionBlock(b)
  \/ \E d \in 1..Len(CallerData) : CreateDataNode(d)
  \/ \E ParentNode \in Handles, NewNode \in Handles : VarListAddHead(ParentNode, NewNode)
  \/ \E ParentNode \in Handles, NewNode \in Handles : VarListAddTail(ParentNode, NewNode)
  \/ \E Node \in Handles, NewNode \in Handles : VarListAddAfter(Node, NewNode)
  \/ \E Node \in Handles, NewNode \in Handles : VarListAddBefore(Node, NewNode)
  \/ \E Node \in Handles : RemoveNodeFromVarArgList(Node)
  \/ \E OldNode \in Handles, NewNode \in Handles : ReplaceArgument(OldNode, NewNode)
  \/ \E DataNode \in Handles, d \in 1..Len(CallerData) : UpdateDataNode(DataNode, d)
  \/ \E RootNode \in Handles : UpdateRootNode(RootNode)
  \/ \E Node \in Handles : DeleteTree(Node)
  \/ \E Node \in Handles : DeleteNode(Node)
  \/ SerializeTreeNoBuffer
  \/ \E Slack \in {-1, 0, 1}, Fill \in AdjacentFill :
       \E BufferSize \in {TableSizeOf(heap, Root) + Slack} : SerializeTree(BufferSize, Fill)

Spec == Init /\ [][Next]_vars

(***************************************************************************)
(* The PkgLength codec on its own: a length is encoded, then decoded       *)
(***************************************************************************)
\* How far around each width edge the lengths are drawn.
PkgSpread == 4

PkgEdges == {0, 64, 4096, 1048576, 268435456}

PkgLengths ==
  {L \in UNION {(e - PkgSpread)..(e + PkgSpread) : e \in PkgEdges} : L >= 0}

PkgInit ==
  /\ NoTree
  /\ \E L \in PkgLengths : Pure = [Name |-> "Length", Of |-> L, In |-> <<>>, Out |-> <<>>]

\* AmlSetPkgLength (Pure.Of, Buffer): Out is what Buffer holds on return.
SetPkgLength ==
  /\ Pure.Name = "Length"
  /\ Pure' = [Pure EXCEPT !.Name = "AmlSetPkgLength", !.In = <<Pure.Of>>,
                          !.Out = AmlSetPkgLength(Pure.Of)]
  /\ UNCHANGED <<heap, Root, Block, Op, Prev, Ser, Steps, Failed, Freed>>

\* AmlGetPkgLength (Buffer, &PkgLength) on the bytes just written.
GetPkgLength ==
  /\ Pure.Name = "AmlSetPkgLength"
  /\ Pure.Out # <<>>
  /\ Pure' = [Pure EXCEPT !.Name = "AmlGetPkgLength", !.In = Pure.Out,
                          !.Out = <<AmlGetPkgLength(Pure.Out, 0).PkgLength,
                                    AmlGetPkgLength(Pure.Out, 0).Offset>>]
  /\ UNCHANGED <<heap, Root, Block, Op, Prev, Ser, Steps, Failed, Freed>>

PkgNext == SetPkgLength \/ GetPkgLength

PkgSpec == PkgInit /\ [][PkgNext]_vars

\* The least number of bytes whose 6, 12, 20 or 28 value bits hold L.
PkgMinWidth(L) ==
  CHOOSE k \in 1..4 :
    /\ L < Pow2(IF k = 1 THEN 6 ELSE 4 + 8 * (k - 1))
    /\ \A j \in 1..(k - 1) : L >= Pow2(IF j = 1 THEN 6 ELSE 4 + 8 * (j - 1))

\* C11: for every length L in 0..2^28-1, AmlSetPkgLength writes k bytes with
\* k in 1..4, k is the least width that holds L (and the width
\* AmlComputePkgLengthWidth announces), and AmlGetPkgLength on those bytes
\* gives back L and consumes k bytes.
PkgLengthRoundTrip ==
  Pure.Of \in 0..MAX_PKG_LEN =>
    /\ Pure.Name = "AmlSetPkgLength" =>
         /\ Len(Pure.Out) \in 1..4
         /\ Len(Pure.Out) = PkgMinWidth(Pure.Of)
         /\ Len(Pure.Out) = AmlComputePkgLengthWidth(Pure.Of)
         /\ \A i \in 1..Len(Pure.Out) : Pure.Out[i] \in 0..255
    /\ Pure.Name = "AmlGetPkgLength" =>
         /\ Pure.Out = <<Pure.Of, Len(Pure.In)>>
         /\ Len(Pure.In) = PkgMinWidth(Pure.Of)

\* A three-byte length has been encoded and decoded.
PkgLengthRoundTripSeen ==
  /\ Pure.Name = "AmlGetPkgLength"
  /\ Pure.Of = 4096 + PkgSpread
  /\ Len(Pure.In) = 3

(***************************************************************************)
(* The PkgLength decoder on its own, on any four bytes                     *)
(***************************************************************************)
\* Lead bytes of every byte count, with the bits 4 and 5 clear and set.
PkgLeadBytes == {0, 63, 64, 79, 80, 127, 128, 176, 192, 255}
\* The bytes that follow the lead byte.
PkgFollowBytes == {0, 1, 255}

PkgEncodings == {<<l, a, b, c>> : l \in PkgLeadBytes, a, b, c \in PkgFollowBytes}

PkgDecodeInit ==
  /\ NoTree
  /\ \E e \in PkgEncodings : Pure = [Name |-> "Encoding", Of |-> e, In |-> <<>>, Out |-> <<>>]

\* AmlGetPkgLength (Buffer, &PkgLength) on the bytes drawn.
DecodePkgLength ==
  /\ Pure.Name = "Encoding"
  /\ \E r \in {AmlGetPkgLength(Pure.Of, 0)} :
       Pure' = [Pure EXCEPT !.Name = "AmlGetPkgLength", !.In = Pure.Of,
                            !.Out = <<r.PkgLength, r.Offset>>]
  /\ UNCHANGED <<heap, Root, Block, Op, Prev, Ser, Steps, Failed, Freed>>

PkgDecodeNext == DecodePkgLength

PkgDecodeSpec == PkgDecodeInit /\ [][PkgDecodeNext]_vars

\* The number of bytes the lead byte announces after itself (bits 6-7).
FollowCount(e) == (e[1] \div 64) % 4

\* A one-byte encoding, or a longer one whose lead byte has bits 4-5 clear.
PkgWellFormed(e) == FollowCount(e) = 0 \/ (e[1] \div 16) % 4 = 0

\* C27: on a well-formed encoding AmlGetPkgLength returns the number of bytes
\* of the field, 1 to 4, with the value they encode; on a multi-byte encoding
\* whose lead byte has bit 4 or 5 set it returns 0 bytes consumed.
PkgDecodeContract ==
  (Pure.Name = "AmlGetPkgLength" /\ Pure.In \in PkgEncodings) =>
    IF PkgWellFormed(Pure.In)
    THEN /\ Pure.Out[2] = FollowCount(Pure.In) + 1
         /\ Pure.Out[2] \in 1..4
         /\ AmlSetPkgLength(Pure.Out[1]) # <<>>
         /\ Pure.Out[1] =
              IF FollowCount(Pure.In) = 0 THEN Pure.In[1]
              ELSE (Pure.In[1] % 16)
                   + 16 * LeValue(SubSeq(Pure.In, 2, 1 + FollowCount(Pure.In)))
    ELSE Pure.Out[2] = 0

(***************************************************************************)
(* The byte list of a Buffer on its own: validation, then decoding         *)
(***************************************************************************)
\* Longest byte list drawn.
MaxRdLen == 4

\* Headers of small descriptors of one and two bytes, of the dependent
\* function descriptors, of end tags with and without a checksum byte, and of
\* large descriptors; 0 and 1 are also the length bytes of the large ones.
RdBytes == {0, 1, 48, 56, 120, 121, 129, 248}

RECURSIVE SeqsUpTo(_, _)
SeqsUpTo(S, n) ==
  IF n = 0 THEN {<<>>}
  ELSE SeqsUpTo(S, n - 1)
       \cup {Append(s, b) : s \in {t \in SeqsUpTo(S, n - 1) : Len(t) = n - 1}, b \in S}

\* I/O port descriptor: information, minimum 0x1000, maximum 0x2000,
\* alignment 0x10, length 4.
IoPortDescriptor == <<71, 1, 0, 16, 0, 32, 16, 4>>
\* The checksum bytes tried behind the end tag 0x79.
RdChecksums == {0, 161}
IoPortBuffers == {IoPortDescriptor \o <<121, c>> : c \in RdChecksums}

RdInputs == (SeqsUpTo(RdBytes, MaxRdLen) \ {<<>>}) \cup IoPortBuffers

\* The Buffer object node AmlParseStatements has created when it reaches the
\* byte list.
RdHeap == AmlCreateObjectNode(EmptyHeap, AmlGetByOpByte(<<AML_BUFFER_OP>>, 0), 0).h
\* The node that call allocates.
RdBufferNode == AllocateZeroPool(EmptyHeap)

RdInit ==
  /\ heap = RdHeap
  /\ Root = NULL
  /\ Block = 0
  /\ Op = Call("Init", EFI_SUCCESS, NULL, NULL)
  /\ Prev = EmptyHeap
  /\ Ser = NoSer
  /\ Steps = 0
  /\ Failed = FALSE
  /\ Freed = FALSE
  /\ \E s \in RdInputs : Pure = [Name |-> "Bytes", Of |-> s, In |-> <<>>, Out |-> <<>>]

\* AmlParseResourceData (BufferNode, Buffer, Size) on a list the validation
\* accepts.
ParseResourceData ==
  /\ Pure.Name = "Bytes"
  /\ AmlRdIsResourceDataBuffer(Pure.Of, 0, Len(Pure.Of))
  /\ \E r \in {AmlParseResourceData(heap, Pure.Of, RdBufferNode, 0, Len(Pure.Of))} :
       /\ heap' = r.h
       /\ Pure' = [Pure EXCEPT !.Name = "AmlParseResourceData", !.In = Pure.Of,
                               !.Out = <<r.Status>>]
  /\ Prev' = heap
  /\ UNCHANGED <<Root, Block, Op, Ser, Steps, Failed, Freed>>

\* AmlParseByteList (Node, Buffer, MaxBufferSize, &Offset) on any list.
ParseByteList ==
  /\ Pure.Name = "Bytes"
  /\ \E r \in {AmlParseByteList(heap, Pure.Of, RdBufferNode, 0, Len(Pure.Of))} :
       /\ heap' = r.h
       /\ Pure' = [Pure EXCEPT !.Name = "AmlParseByteList", !.In = Pure.Of,
                               !.Out = <<r.Status, r.Offset>>]
  /\ Prev' = heap
  /\ UNCHANGED <<Root, Block, Op, Ser, Steps, Failed, Freed>>

RdNext == ParseResourceData \/ ParseByteList

RdSpec == RdInit /\ [][RdNext]_vars

\* The nodes of the variable argument list of the Buffer node, in order.
RdNodes == ListEntries(heap, AmlNodeGetVariableArgList(heap, RdBufferNode))

\* The buffers of the nodes, one after the other.
RECURSIVE JoinBuffers(_, _)
JoinBuffers(h, Nodes) ==
  IF Nodes = <<>> THEN <<>> ELSE h[Head(Nodes)].Buffer \o JoinBuffers(h, Tail(Nodes))

RECURSIVE SumSizes(_, _)
SumSizes(h, Nodes) ==
  IF Nodes = <<>> THEN 0 ELSE h[Head(Nodes)].Size + SumSizes(h, Tail(Nodes))

\* C12: for every byte list AmlRdIsResourceDataBuffer accepts,
\* AmlParseResourceData succeeds and the Buffer node holds, in input order,
\* resource data nodes whose sizes add up to the length of the list and whose
\* last node is an end tag descriptor (a small descriptor of name 0xF).
RdFraming ==
  Pure.Name = "AmlParseResourceData" =>
    /\ Pure.Out = <<EFI_SUCCESS>>
    /\ RdNodes # <<>>
    /\ \A i \in DOMAIN RdNodes :
         /\ IS_AML_DATA_NODE(heap, RdNodes[i])
         /\ heap[RdNodes[i]].DataType = EFI_ACPI_NODE_TYPE_RESOURCE_DATA
         /\ heap[RdNodes[i]].Size = Len(heap[RdNodes[i]].Buffer)
    /\ JoinBuffers(heap, RdNodes) = Pure.In
    /\ SumSizes(heap, RdNodes) = Len(Pure.In)
    /\ AmlRdGetDescId(heap[RdNodes[Len(RdNodes)]].Buffer, 0)
         = AML_RD_BUILD_SMALL_DESC_ID(EAmlRdsIdEndTag)

\* C13: for every non-empty byte list of a Buffer that
\* AmlRdIsResourceDataBuffer rejects, AmlParseByteList succeeds, consumes the
\* whole list, and leaves exactly one node in the Buffer node: a raw data
\* node holding the whole list.
RawFallback ==
  (/\ Pure.Name = "AmlParseByteList"
   /\ Pure.In # <<>>
   /\ ~AmlRdIsResourceDataBuffer(Pure.In, 0, Len(Pure.In))) =>
    /\ Pure.Out = <<EFI_SUCCESS, Len(Pure.In)>>
    /\ Len(RdNodes) = 1
    /\ IS_AML_DATA_NODE(heap, RdNodes[1])
    /\ heap[RdNodes[1]].DataType = EFI_ACPI_NODE_TYPE_RAW
    /\ heap[RdNodes[1]].Buffer = Pure.In
    /\ heap[RdNodes[1]].Size = Len(Pure.In)
    /\ heap[RdNodes[1]].Parent = RdBufferNode
    /\ Allocated(heap) = {RdBufferNode, RdNodes[1]}

\* A list whose end tag comes before its end has been decoded as raw bytes.
RawFallbackSeen ==
  /\ Pure.Name = "AmlParseByteList"
  /\ Pure.In = <<0, 121, 0, 1>>
  /\ ~AmlRdIsResourceDataBuffer(Pure.In, 0, Len(Pure.In))
  /\ Len(RdNodes) = 1

\* Walking the elements of s from offset p by their sizes, an end dependent
\* function descriptor is met while Open start dependent function
\* descriptors are unmatched and Open is 0.
RECURSIVE UnmatchedEnd(_, _, _)
UnmatchedEnd(s, p, Open) ==
  IF p >= Len(s) THEN FALSE
  ELSE IF AML_RD_IS_LARGE(s, p)
  THEN /\ p + AML_RD_LARGE_HEADER_SIZE <= Len(s)
       /\ UnmatchedEnd(s, AmlRdGetNext(s, p), Open)
  ELSE IF AmlRdGetDescId(s, p) = AML_RD_BUILD_SMALL_DESC_ID(EAmlRdsIdEndDepFunc)
  THEN Open = 0 \/ UnmatchedEnd(s, AmlRdGetNext(s, p), Open - 1)
  ELSE IF AmlRdGetDescId(s, p) = AML_RD_BUILD_SMALL_DESC_ID(EAmlRdsIdStartDepFunc)
  THEN UnmatchedEnd(s, AmlRdGetNext(s, p), Open + 1)
  ELSE UnmatchedEnd(s, AmlRdGetNext(s, p), Open)

\* C26: a byte list in which an end dependent function descriptor comes with
\* no unmatched start dependent function descriptor before it is rejected by
\* AmlRdIsResourceDataBuffer, so it is never decoded as resource data.
UnmatchedEndRejected ==
  (Pure.Name \in {"AmlParseResourceData", "AmlParseByteList"}
   /\ UnmatchedEnd(Pure.In, 0, 0)) =>
    /\ ~AmlRdIsResourceDataBuffer(Pure.In, 0, Len(Pure.In))
    /\ Pure.Name # "AmlParseResourceData"

\* The offsets AmlRdIsResourceDataBuffer reads in its while (1) loop from the
\* element at offset p on, up to its first read at or behind BufferSize: what
\* it does after such a read depends on memory that is not the buffer's.
RECURSIVE AmlRdLoopReads(_, _, _, _, _)
AmlRdLoopReads(m, p, BufferSize, BytesParsed, InFunctionDesc) ==
  LET DataElementSize == AmlRdGetSize(m, p)
      Nesting == AmlRdCheckFunctionDescNesting(m, p, InFunctionDesc)
      SizeReads == IF AML_RD_IS_LARGE(m, p) THEN {p, p + 1, p + 2} ELSE {p}
  IN IF p >= BufferSize THEN {p}
     ELSE IF AML_RD_IS_LARGE(m, p) /\ ULt(BufferSize, AML_RD_LARGE_HEADER_SIZE) THEN {p}
     ELSE IF \E o \in SizeReads : o >= BufferSize THEN SizeReads
     ELSE IF UGt(BytesParsed + DataElementSize, BufferSize) THEN SizeReads
     ELSE IF ~Nesting[1] THEN SizeReads
     ELSE IF AmlRdCompareDescId(ReadByte(m, p), AML_RD_BUILD_SMALL_DESC_ID(EAmlRdsIdEndTag))
     THEN SizeReads
     ELSE SizeReads \cup AmlRdLoopReads(m, AmlRdGetNext(m, p), BufferSize,
                                        BytesParsed + DataElementSize, Nesting[2])

\* The offsets AmlRdIsResourceDataBuffer (Buffer, BufferSize) reads, Buffer
\* being offset 0 of m.
AmlRdReads(m, BufferSize) ==
  IF BufferSize = 0 THEN {}
  ELSE IF AmlRdCompareDescId(ReadByte(m, 0), AML_RD_BUILD_SMALL_DESC_ID(EAmlRdsIdEndTag))
  THEN {0}
  ELSE {0} \cup AmlRdLoopReads(m, 0, BufferSize, 0, FALSE)

\* C29: AmlRdIsResourceDataBuffer (Buffer, BufferSize) reads no byte at an
\* offset greater than or equal to BufferSize.
RdReadsInBounds ==
  Pure.Name = "AmlParseByteList" =>
    \A o \in AmlRdReads(Pure.In, Len(Pure.In)) : o < Len(Pure.In)

\* C23: the byte list made of the I/O port descriptor and an end tag passes
\* the validation and is decoded into exactly two resource data nodes, the
\* first with the descriptor id of the I/O port descriptor (small, name 8),
\* the second with the id of the end tag.
IoPortDecoded ==
  (Pure.Name = "AmlParseByteList" /\ Pure.In \in IoPortBuffers) =>
    /\ AmlRdIsResourceDataBuffer(Pure.In, 0, Len(Pure.In))
    /\ Pure.Out = <<EFI_SUCCESS, Len(Pure.In)>>
    /\ Len(RdNodes) = 2
    /\ \A i \in DOMAIN RdNodes :
         /\ IS_AML_DATA_NODE(heap, RdNodes[i])
         /\ heap[RdNodes[i]].DataType = EFI_ACPI_NODE_TYPE_RESOURCE_DATA
         /\ heap[RdNodes[i]].Parent = RdBufferNode
    /\ heap[RdNodes[1]].Buffer = IoPortDescriptor
    /\ heap[RdNodes[2]].Buffer = SubSeq(Pure.In, Len(IoPortDescriptor) + 1, Len(Pure.In))
    /\ AmlRdGetDescId(heap[RdNodes[1]].Buffer, 0) = 8 * 8
    /\ AmlRdGetDescId(heap[RdNodes[2]].Buffer, 0) = 15 * 8
    /\ Allocated(heap) = {RdBufferNode, RdNodes[1], RdNodes[2]}

\* The I/O port list has been decoded into two nodes.
IoPortDecodedSeen ==
  /\ Pure.Name = "AmlParseByteList"
  /\ Pure.In = IoPortDescriptor \o <<121, 161>>
  /\ Len(RdNodes) = 2
  /\ heap[RdNodes[1]].Size = 8
  /\ heap[RdNodes[2]].Size = 2

(***************************************************************************)
(* Properties of the editing calls                                         *)
(***************************************************************************)
InsertCalls ==
  {"AmlVarListAddHead", "AmlVarListAddTail", "AmlVarListAddAfter", "AmlVarListAddBefore"}

\* The node whose variable argument list the last call edited: the parent
\* handed in, or the parent of the anchor or of the removed node.
EditedParent ==
  IF Op.Name \in {"AmlVarListAddHead", "AmlVarListAddTail"} THEN Op.Node
  ELSE IF Op.Name \in {"AmlVarListAddAfter", "AmlVarListAddBefore",
                       "AmlRemoveNodeFromVarArgList"}
  THEN AmlGetParent(Prev, Op.Node)
  ELSE NULL

IsPackageNode(h, Node) ==
  /\ IS_AML_OBJECT_NODE(h, Node)
  /\ mAmlByteEncoding[h[Node].AmlByteEncoding].OpCode \in {AML_PACKAGE_OP, AML_VAR_PACKAGE_OP}

\* The element count the first fixed argument of a package stores, -1 when it
\* stores none.
ElementCount(h, Node) ==
  LET Arg == h[Node].FixedArgs[AML_OP_PARSE_INDEX_GET_TERM1 + 1]
  IN IF mAmlByteEncoding[h[Node].AmlByteEncoding].OpCode = AML_PACKAGE_OP
     THEN IF IS_AML_DATA_NODE(h, Arg) /\ Len(h[Arg].Buffer) = 1 THEN h[Arg].Buffer[1] ELSE -1
     ELSE IF EFI_ERROR(AmlNodeGetIntegerValue(h, Arg).Status) THEN -1
     ELSE AmlNodeGetIntegerValue(h, Arg).Value

ListLength(h, Node) == Len(ListEntries(h, AmlNodeGetVariableArgList(h, Node)))

\* C14: after a successful insertion into or removal from the variable
\* argument list of a Package or VarPackage whose stored element count was
\* the length of the list, the stored count is again the length of the list.
PackageCountTracksList ==
  (/\ Op.Name \in InsertCalls \cup {"AmlRemoveNodeFromVarArgList"}
   /\ Op.Status = EFI_SUCCESS
   /\ IsPackageNode(Prev, EditedParent)
   /\ ElementCount(Prev, EditedParent) = ListLength(Prev, EditedParent)) =>
    ElementCount(heap, EditedParent) = ListLength(heap, EditedParent)

\* Node is what a fixed-argument slot of its parent refers to.
InFixedSlot(h, Node) ==
  /\ IS_AML_OBJECT_NODE(h, h[Node].Parent)
  /\ \E i \in 1..AML_OP_PARSE_INDEX_MAX : h[h[Node].Parent].FixedArgs[i] = Node

\* The Link of Node is chained to another list entry.
InSiblingList(h, Node) == ForwardLink(h, Node) # Node \/ BackLink(h, Node) # Node

\* C17: no node is at once in a fixed-argument slot of its parent and linked
\* into a list of siblings.
FixedXorListed ==
  \A Node \in Allocated(heap) : ~(InFixedSlot(heap, Node) /\ InSiblingList(heap, Node))

\* The places that hold Node: <<q, 0, i>> for the fixed-argument slot i of q,
\* <<q, 1, i>> for the i-th entry of the variable-argument list of q.
PositionsOf(h, Node) ==
  {t \in {o \in Allocated(h) : IS_AML_OBJECT_NODE(h, o)} \X {0}
            \X (1..AML_OP_PARSE_INDEX_MAX) :
     h[t[1]].FixedArgs[t[3]] = Node}
  \cup
  {t \in {o \in Allocated(h) : AmlNodeGetVariableArgList(h, o) # NULL} \X {1}
            \X (1..(2 * MaxNodes)) :
     LET Entries == ListEntries(h, AmlNodeGetVariableArgList(h, t[1]))
     IN t[3] <= Len(Entries) /\ Entries[t[3]] = Node}

\* C18: while every decode and edit call has succeeded and none has freed a
\* node, each node that has a
\* parent is held at exactly one place, a fixed-argument slot or a list
\* position of that parent, and the Parent pointers from any node end after
\* finitely many steps.
OnePlaceNoCycle ==
  (~Failed /\ ~Freed) =>
    \A Node \in Allocated(heap) :
      /\ ParentChainEnds(heap, Node, MaxNodes)
      /\ heap[Node].Parent # NULL =>
           /\ Cardinality(PositionsOf(heap, Node)) = 1
           /\ \A t \in PositionsOf(heap, Node) : t[1] = heap[Node].Parent

\* OldNode is in a slot the grammar declares as an integer, a name string or
\* a string, and NewNode is a data node of another type.
TypeMismatch(h, OldNode, NewNode) ==
  /\ IS_AML_DATA_NODE(h, OldNode) \/ IS_AML_OBJECT_NODE(h, OldNode)
  /\ IS_AML_OBJECT_NODE(h, h[OldNode].Parent)
  /\ IS_AML_DATA_NODE(h, NewNode)
  /\ \E i \in 1..AML_OP_PARSE_INDEX_MAX :
       LET Type == mAmlByteEncoding[h[h[OldNode].Parent].AmlByteEncoding].Format[i]
       IN /\ h[h[OldNode].Parent].FixedArgs[i] = OldNode
          /\ \/ Type \in {AML_UINT8, AML_UINT16, AML_UINT32, AML_UINT64}
                /\ h[NewNode].DataType # EFI_ACPI_NODE_TYPE_UINT
             \/ Type = AML_NAME /\ h[NewNode].DataType # EFI_ACPI_NODE_TYPE_NAME_STRING
             \/ Type = AML_STRING /\ h[NewNode].DataType # EFI_ACPI_NODE_TYPE_STRING

AllowedInList(h, ParentNode, NewNode) ==
  \/ /\ AmlObjectNodeHasAttribute(h, ParentNode, AML_HAS_BYTE_LIST)
     /\ IS_AML_DATA_NODE(h, NewNode)
  \/ /\ AmlObjectNodeHasAttribute(h, ParentNode, AML_HAS_CHILD_OBJ)
     /\ IS_AML_DATA_NODE(h, NewNode) \/ IS_AML_OBJECT_NODE(h, NewNode)

\* The case of the replacement of a list member: OldNode is an entry of the
\* variable-argument list of its parent, NewNode is detached and allowed.
ListReplacement(h, OldNode, NewNode) ==
  /\ IS_AML_DATA_NODE(h, OldNode) \/ IS_AML_OBJECT_NODE(h, OldNode)
  /\ IS_AML_OBJECT_NODE(h, h[OldNode].Parent)
  /\ IsNodeInList(h, AmlNodeGetVariableArgList(h, h[OldNode].Parent), OldNode)
  /\ ~InFixedSlot(h, OldNode)
  /\ IS_AML_DATA_NODE(h, NewNode) \/ IS_AML_OBJECT_NODE(h, NewNode)
  /\ AML_NODE_IS_DETACHED(h, NewNode)
  /\ AllowedInList(h, h[OldNode].Parent, NewNode)

\* C20: AmlReplaceArgument on a member of a variable-argument list, with a
\* detached new node the attributes of the parent allow, succeeds; the new
\* node stands where the old one stood, under the same parent, the PkgLen of
\* the parent has changed by the difference of the two sizes, and the old
\* node is detached and still allocated.
ListMemberReplaced ==
  (/\ Op.Name = "AmlReplaceArgument"
   /\ ListReplacement(Prev, Op.Node, Op.Arg)) =>
    LET ParentNode == Prev[Op.Node].Parent
        Before == ListEntries(Prev, AmlNodeGetVariableArgList(Prev, ParentNode))
        After == ListEntries(heap, AmlNodeGetVariableArgList(heap, ParentNode))
    IN /\ Op.Status = EFI_SUCCESS
       /\ After = [i \in DOMAIN Before |->
                    IF Before[i] = Op.Node THEN Op.Arg ELSE Before[i]]
       /\ heap[Op.Arg].Parent = ParentNode
       /\ AmlObjectNodeHasAttribute(Prev, ParentNode, AML_HAS_PKG_LENGTH) =>
            heap[ParentNode].PkgLen =
              Prev[ParentNode].PkgLen + AmlComputeSize(Prev, Op.Arg, 0).Size
                - AmlComputeSize(Prev, Op.Node, 0).Size
       /\ Op.Node \in Allocated(heap)
       /\ AML_NODE_IS_DETACHED(heap, Op.Node)

\* C21: after a successful AmlUpdateRootNode the Length of the root header
\* is the size of the serialized table: the header and the encoded sizes of
\* all the nodes below the root.
UpdatedRootLength ==
  (Op.Name = "AmlUpdateRootNode" /\ Op.Status = EFI_SUCCESS) =>
    HeaderLength(heap[Op.Node].SdtHeader) = TableSizeOf(heap, Op.Node)

\* The index in Blocks of the table of the scenarios with the integer of _UID
\* encoded as a BytePrefix and one byte.
ScenarioBlock == CHOOSE i \in 1..Len(Bodies) : Bodies[i] = ScopeDeviceByteBody
\* The two encodings of the table of the scenarios: the integer 0 as ZeroOp
\* and as a BytePrefix followed by the byte 0.
ScenarioBlocks ==
  {i \in 1..Len(Bodies) : Bodies[i] \in {ScopeDeviceBody, ScopeDeviceByteBody}}

\* The nodes of the decoded scenario table, by the path from the root.
FirstChild(h, Node) == Head(ListEntries(h, AmlNodeGetVariableArgList(h, Node)))
ScenarioScope(h) == FirstChild(h, Root)
ScenarioDevice(h) == FirstChild(h, ScenarioScope(h))
ScenarioName(h) == FirstChild(h, ScenarioDevice(h))
\* The second fixed argument of the Name statement.
ScenarioInteger(h) == h[ScenarioName(h)].FixedArgs[AML_OP_PARSE_INDEX_GET_TERM1 + 2]
ScenarioUid(h) == h[ScenarioInteger(h)].FixedArgs[AML_OP_PARSE_INDEX_GET_TERM1 + 1]

\* The first call after the decode of the scenario table updates the data
\* node of _UID with the two bytes of 300.
UidUpdate ==
  /\ Block = ScenarioBlock
  /\ Steps = 1
  /\ Op.Name = "AmlUpdateDataNode"
  /\ Op.Node = ScenarioUid(Prev)
  /\ CallerData[Op.Arg].Data = <<44, 1>>

\* C22: updating the _UID data node of the scenario table with 300 succeeds;
\* the data node grows from 1 to 2 bytes, the Name statement has no PkgLen to
\* update, and the PkgLen of the Scope and the Length of the root each grow
\* by exactly 1.
UidUpdateGrows ==
  UidUpdate =>
    /\ Op.Status = EFI_SUCCESS
    /\ Prev[Op.Node].Size = 1
    /\ heap[Op.Node].Size = 2
    /\ heap[Op.Node].Buffer = <<44, 1>>
    /\ ~AmlObjectNodeHasAttribute(heap, ScenarioName(heap), AML_HAS_PKG_LENGTH)
    /\ heap[ScenarioName(heap)].PkgLen = Prev[ScenarioName(Prev)].PkgLen
    /\ heap[ScenarioScope(heap)].PkgLen = Prev[ScenarioScope(Prev)].PkgLen + 1
    /\ HeaderLength(heap[Root].SdtHeader) = HeaderLength(Prev[Root].SdtHeader) + 1

\* Arg is a name-string data node whose bytes are Name.
IsNameString(h, Arg, Name) ==
  /\ IS_AML_DATA_NODE(h, Arg)
  /\ h[Arg].DataType = EFI_ACPI_NODE_TYPE_NAME_STRING
  /\ h[Arg].Size = Len(Name)
  /\ h[Arg].Buffer = Name

\* Arg is an integer data node of one byte holding 0.
IsByteZero(h, Arg) ==
  /\ IS_AML_DATA_NODE(h, Arg)
  /\ h[Arg].DataType = EFI_ACPI_NODE_TYPE_UINT
  /\ h[Arg].Size = 1
  /\ h[Arg].Buffer = <<0>>

\* The decode of a table of the scenarios has just returned.
ScenarioDecoded ==
  /\ Op.Name = "AmlParseDefinitionBlock"
  /\ Steps = 0
  /\ Block \in ScenarioBlocks

\* Root -> Scope (\_SB_) -> Device (DEV0) -> Name (_UID, ...): each with one
\* child in its list, the names held in name-string data nodes.
ScenarioPath(h) ==
  /\ IS_AML_ROOT_NODE(h, Root)
  /\ ListLength(h, Root) = 1
  /\ AmlNodeCompareOpCode(h, ScenarioScope(h), 16, 0)
  /\ IsNameString(h, h[ScenarioScope(h)].FixedArgs[AML_OP_PARSE_INDEX_GET_TERM1 + 1],
                  <<92, 95, 83, 66, 95>>)
  /\ ListLength(h, ScenarioScope(h)) = 1
  /\ AmlNodeCompareOpCode(h, ScenarioDevice(h), AML_EXT_OP, 130)
  /\ IsNameString(h, h[ScenarioDevice(h)].FixedArgs[AML_OP_PARSE_INDEX_GET_TERM1 + 1],
                  <<68, 69, 86, 48>>)
  /\ ListLength(h, ScenarioDevice(h)) = 1
  /\ AmlNodeCompareOpCode(h, ScenarioName(h), 8, 0)
  /\ IsNameString(h, h[ScenarioName(h)].FixedArgs[AML_OP_PARSE_INDEX_GET_TERM1 + 1],
                  <<95, 85, 73, 68>>)
  /\ ListLength(h, ScenarioName(h)) = 0

\* C24 as stated: decoding Scope (\_SB_) { Device (DEV0) { Name (_UID, 0) } }
\* succeeds and yields root -> Scope -> Device -> Name, and the second fixed
\* argument of the Name holds the integer 0 in a 1-byte data node, the
\* argument being that data node or an object node that has it.
ScenarioTreeByteNode ==
  ScenarioDecoded =>
    /\ Op.Status = EFI_SUCCESS
    /\ ScenarioPath(heap)
    /\ \/ IsByteZero(heap, ScenarioInteger(heap))
       \/ /\ IS_AML_OBJECT_NODE(heap, ScenarioInteger(heap))
          /\ IsByteZero(heap, ScenarioUid(heap))

\* C24: decoding Scope (\_SB_) { Device (DEV0) { Name (_UID, 0) } } succeeds
\* and yields root -> Scope -> Device -> Name with the name strings in data
\* nodes; the second fixed argument of the Name is an object node for the
\* integer: a ZeroOp object with no argument and no data node when 0 is
\* encoded as ZeroOp, a BytePrefix object whose fixed argument is a 1-byte
\* integer data node holding 0 when 0 is encoded as 0x0A 0x00.
ScenarioTree ==
  ScenarioDecoded =>
    /\ Op.Status = EFI_SUCCESS
    /\ ScenarioPath(heap)
    /\ Allocated(heap) = 1..(IF Block = ScenarioBlock THEN 9 ELSE 8)
    /\ IF Block = ScenarioBlock
       THEN /\ AmlNodeCompareOpCode(heap, ScenarioInteger(heap), AML_BYTE_PREFIX, 0)
            /\ IsByteZero(heap, ScenarioUid(heap))
            /\ ListLength(heap, ScenarioInteger(heap)) = 0
       ELSE /\ AmlNodeCompareOpCode(heap, ScenarioInteger(heap), AML_ZERO_OP, 0)
            /\ \A i \in 1..AML_OP_PARSE_INDEX_MAX :
                 heap[ScenarioInteger(heap)].FixedArgs[i] = NULL
            /\ ListLength(heap, ScenarioInteger(heap)) = 0

\* The scenario table with the BytePrefix encoding has been decoded into its tree.
ScenarioTreeSeen ==
  /\ ScenarioDecoded
  /\ Block = ScenarioBlock
  /\ Op.Status = EFI_SUCCESS
  /\ IsByteZero(heap, ScenarioUid(heap))

\* The number of opcode bytes of an object node.
OpCodeBytes(h, Node) ==
  IF mAmlByteEncoding[h[Node].AmlByteEncoding].OpCode = AML_EXT_OP THEN 2 ELSE 1

\* The nodes of a decoded tree in the order of their bytes in Table, from
\* offset Off on: for each node its offset, the width of the length field
\* read there (0 when it has none) and the number of bytes it stands for
\* itself (opcode bytes and length field of an object, bytes of a data node).
RECURSIVE AsRead(_, _, _, _)
AsRead(h, Table, Nodes, Off) ==
  IF Nodes = <<>> THEN <<>>
  ELSE LET Node == Head(Nodes)
           Width == IF AmlObjectNodeHasAttribute(h, Node, AML_HAS_PKG_LENGTH)
                    THEN AmlGetPkgLength(Table, Off + OpCodeBytes(h, Node)).Offset
                    ELSE 0
           Bytes == IF IS_AML_DATA_NODE(h, Node) THEN h[Node].Size
                    ELSE IF IS_AML_OBJECT_NODE(h, Node)
                    THEN OpCodeBytes(h, Node) + Width
                    ELSE 0
       IN <<[Node |-> Node, Offset |-> Off, Width |-> Width, Bytes |-> Bytes]>>
          \o AsRead(h, Table, Tail(Nodes), Off + Bytes)

RECURSIVE SumBytesOf(_, _)
SumBytesOf(Entries, Nodes) ==
  IF Entries = <<>> THEN 0
  ELSE (IF Head(Entries).Node \in Nodes THEN Head(Entries).Bytes ELSE 0)
       + SumBytesOf(Tail(Entries), Nodes)

\* The bytes of the fixed arguments, variable arguments and byte list of Node.
ContentBytes(h, Entries, Node) ==
  SumBytesOf(Entries, {AmlEnumTree(h, Node)[i] : i \in DOMAIN AmlEnumTree(h, Node)}
                      \ {Node})

\* A decode has just succeeded.
Decoded ==
  /\ Op.Name = "AmlParseDefinitionBlock"
  /\ Op.Status = EFI_SUCCESS
  /\ Steps = 0

WellFormedBodies ==
  {Bodies[i] : i \in 1..Len(Bodies)} \ {OverrunScopeBody, LoneNameBody}

\* The first call after a successful decode is AmlSerializeTree with a buffer
\* of the size the library reports for the tree.
SerializedDecoded ==
  /\ Steps = 1
  /\ Op.Name = "AmlSerializeTree"
  /\ ~Failed
  /\ Ser.Buffer # NULL
  /\ Ser.BufferSize0 = TableSizeOf(heap, Root)

\* C1: decoding a definition block of well-formed AML and serializing the
\* unmodified tree writes the bytes of the block, checksum included.
RoundTrip ==
  (SerializedDecoded /\ Bodies[Block] \in WellFormedBodies) =>
    /\ Op.Status = EFI_SUCCESS
    /\ Ser.Written = Len(Blocks[Block])
    /\ SubSeq(Ser.Mem, 1, Ser.Written) = Blocks[Block]

\* The calls that insert into, remove from or replace in a tree.
ListEdits ==
  {"AmlVarListAddHead", "AmlVarListAddTail", "AmlVarListAddAfter",
   "AmlVarListAddBefore", "AmlRemoveNodeFromVarArgList", "AmlReplaceArgument"}

\* The Length of the root header of h is the size of the tree of h computed
\* from scratch.
LengthIsSize(h) ==
  /\ IS_AML_ROOT_NODE(h, Root)
  /\ AmlComputeSize(h, Root, 0).Status = EFI_SUCCESS
  /\ HeaderLength(h[Root].SdtHeader) = TableSizeOf(h, Root)

\* C2: after every successful insert, remove or replace on a tree whose root
\* Length was the size of the tree, the root Length is the size of the tree
\* computed from scratch.
LengthConserved ==
  (/\ Op.Name \in ListEdits
   /\ Op.Status = EFI_SUCCESS
   /\ LengthIsSize(Prev)) => LengthIsSize(heap)

\* The size of the subtree of Node computed bottom-up is the size its PkgLen
\* stands for: the opcode bytes and the PkgLen bytes behind them.
PkgLenIsSize(h, Node) ==
  /\ AmlComputeSize(h, Node, 0).Status = EFI_SUCCESS
  /\ AmlComputeSize(h, Node, 0).Size = OpCodeBytes(h, Node) + h[Node].PkgLen

\* C3: in the tree of a successful decode, and after every successful edit
\* of a tree that had the property, the size computed bottom-up for every
\* object node with a package length is the size its PkgLen stands for, and
\* the size computed for the root is the Length of its header.
SizesAgree(h) ==
  /\ LengthIsSize(h)
  /\ \A i \in DOMAIN AmlEnumTree(h, Root) :
       AmlObjectNodeHasAttribute(h, AmlEnumTree(h, Root)[i], AML_HAS_PKG_LENGTH) =>
         PkgLenIsSize(h, AmlEnumTree(h, Root)[i])

SizeInvariant ==
  /\ Decoded => SizesAgree(heap)
  /\ (/\ Op.Name \in ListEdits \cup {"AmlUpdateDataNode"}
      /\ Op.Status = EFI_SUCCESS
      /\ IS_AML_ROOT_NODE(Prev, Root)
      /\ SizesAgree(Prev)) => SizesAgree(heap)

\* Node of h has a parent or is chained into a list of siblings.
StillAttached(h, Node) ==
  /\ Node \in Allocated(h)
  /\ (h[Node].Parent # NULL \/ ~IsListEmpty(h, Node))

\* C4: AmlDeleteTree and AmlDeleteNode called on a node that has a parent or
\* is chained into a list of siblings return EFI_INVALID_PARAMETER and leave
\* every node and every buffer as they were.
DetachBeforeDelete ==
  (/\ Op.Name \in {"AmlDeleteTree", "AmlDeleteNode"}
   /\ StillAttached(Prev, Op.Node)) =>
    /\ Op.Status = EFI_INVALID_PARAMETER
    /\ heap = Prev

\* AmlDeleteTree has been called on an object node that has a parent and
\* has refused it without freeing anything.
DetachBeforeDeleteSeen ==
  /\ Op.Name = "AmlDeleteTree"
  /\ StillAttached(Prev, Op.Node)
  /\ Prev[Op.Node].NodeType = EAmlNodeObject
  /\ Op.Status = EFI_INVALID_PARAMETER
  /\ Allocated(heap) = Allocated(Prev)

\* C5: AmlDeleteTree called on the detached root of the tree of a successful
\* decode, whichever fixed arguments are present, returns EFI_SUCCESS and
\* frees the node and all its descendants.
DeleteTreeFrees ==
  (/\ Op.Name = "AmlDeleteTree"
   /\ Steps = 1
   /\ Op.Node \in Allocated(Prev)
   /\ AML_NODE_IS_DETACHED(Prev, Op.Node)) =>
    /\ Op.Status = EFI_SUCCESS
    /\ \A i \in DOMAIN AmlEnumTree(Prev, Op.Node) :
         AmlEnumTree(Prev, Op.Node)[i] \notin Allocated(heap)

\* C6: an edit that returns an error leaves the tree exactly as it was:
\* links, fixed arguments, buffers, sizes, opcodes, PkgLen, element counts
\* and root Length.
FailedEditUnwinds ==
  (/\ Op.Name \in ListEdits \cup {"AmlUpdateDataNode"}
   /\ EFI_ERROR(Op.Status)
   /\ Op.Status # FAULT) => heap = Prev

\* C7: a decode succeeds only if, for every statement with a package
\* length, the bytes decoded under it (fixed arguments, variable arguments,
\* byte list, descendants included) end at or before the boundary its package
\* length gives; the Scope of package length 10 whose content needs 12 bytes
\* is refused.
ParseWithinPkgLen ==
  Decoded =>
    LET Entries == AsRead(heap, Blocks[Block], AmlEnumTree(heap, Root), SDT_HEADER_SIZE)
    IN \A i \in DOMAIN Entries :
         AmlObjectNodeHasAttribute(heap, Entries[i].Node, AML_HAS_PKG_LENGTH) =>
           Entries[i].Width + ContentBytes(heap, Entries, Entries[i].Node)
             <= heap[Entries[i].Node].PkgLen

\* AmlSerializeTree has been called on a tree whose size can be computed.
SerializeCalled ==
  /\ Op.Name = "AmlSerializeTree"
  /\ IS_AML_ROOT_NODE(heap, Root)
  /\ AmlComputeSize(heap, Root, 0).Status = EFI_SUCCESS

\* C8: AmlSerializeTree called without a buffer, or with a buffer smaller
\* than the table, writes nothing, returns EFI_SUCCESS and sets *BufferSize
\* to the size of the table.
SmallBufferUntouched ==
  (/\ SerializeCalled
   /\ (Ser.Buffer = NULL \/ Ser.BufferSize0 < TableSizeOf(heap, Root))) =>
    /\ Op.Status = EFI_SUCCESS
    /\ Ser.Written = 0
    /\ Ser.Mem = Ser.Mem0
    /\ Ser.BufferSize = TableSizeOf(heap, Root)

\* The bytes of Nodes in the order given, as AmlSerializeNodeCallback puts
\* them.
RECURSIVE NodesBytes(_, _)
NodesBytes(h, Nodes) ==
  IF Nodes = <<>> THEN <<>>
  ELSE AmlSerializeNodeBytes(h, Head(Nodes)) \o NodesBytes(h, Tail(Nodes))

\* C9: AmlSerializeTree called with a buffer at least as large as the table
\* writes the header of the root (the checksum byte apart) followed by the
\* bytes of every node in pre-order.
LargeBufferWritten ==
  (/\ SerializeCalled
   /\ Ser.Buffer # NULL
   /\ Ser.BufferSize0 >= TableSizeOf(heap, Root)) =>
    /\ Op.Status = EFI_SUCCESS
    /\ Ser.Written = TableSizeOf(heap, Root)
    /\ \A i \in 1..SDT_HEADER_SIZE :
         i # CHECKSUM_OFFSET + 1 => Ser.Mem[i] = heap[Root].SdtHeader[i]
    /\ SubSeq(Ser.Mem, SDT_HEADER_SIZE + 1, Ser.Written)
         = NodesBytes(heap, AmlEnumTree(heap, Root))

\* C10: after a call of AmlSerializeTree that wrote the table and returned
\* EFI_SUCCESS, the bytes written, the checksum byte included, sum to 0
\* modulo 256.
WrittenSumsToZero ==
  (/\ Op.Name = "AmlSerializeTree"
   /\ Op.Status = EFI_SUCCESS
   /\ Ser.Written > 0) =>
    U8(SumBytes(SubSeq(Ser.Mem, 1, Ser.Written))) = 0

(***************************************************************************)
(* The propagation on its own, on fields at the edges of their ranges      *)
(***************************************************************************)
\* How far from the edge of a range the fields and the differences go.
PropSpread == 2

\* Scope (ABCD) { Zero }
PropScopeBody == <<16, 6, 65, 66, 67, 68, 0>>
\* Buffer (2) { 0xAA, 0xBB } with the size as a QWord
PropQWordBufferBody == <<17, 12, 14, 2, 0, 0, 0, 0, 0, 0, 0, 170, 187>>

PropBodies == <<PropScopeBody, PackageBody, RawBufferBody, PropQWordBufferBody>>

\* The statement node of a decoded one-statement table.
PropNode(h, RootNode) == Head(ListEntries(h, AmlNodeGetVariableArgList(h, RootNode)))

LowEdge == 0..PropSpread
HighEdge(Max) == (Max - PropSpread)..Max

\* The decoded tree with the fields the propagation updates set to v: the
\* PkgLen of the statement and the Length of the table (shape 1), the element
\* count of the Package (shape 2), the size integer of the Buffer (shapes 3
\* and 4).
PropTree(h, RootNode, Shape, v) ==
  LET Node == PropNode(h, RootNode)
      Arg == h[Node].FixedArgs[AML_OP_PARSE_INDEX_GET_TERM1 + 1]
  IN CASE Shape = 1 ->
            [h EXCEPT ![Node].PkgLen = v[1],
                      ![RootNode].SdtHeader = SetHeaderLength(@, v[2])]
       [] Shape = 2 -> [h EXCEPT ![Arg].Buffer = <<v[1]>>]
       [] OTHER ->
            [h EXCEPT ![h[Arg].FixedArgs[AML_OP_PARSE_INDEX_GET_TERM1 + 1]].Buffer =
                        LeBytes(v[1], Len(@))]

PropFields(Shape) ==
  CASE Shape = 1 ->
         (LowEdge \cup HighEdge(MAX_PKG_LEN)) \X (LowEdge \cup HighEdge(MAX_UINT32))
    [] Shape = 2 -> {<<c>> : c \in LowEdge \cup HighEdge(MAX_UINT8)}
    [] Shape = 3 -> {<<c>> : c \in LowEdge \cup HighEdge(MAX_UINT8)}
    [] OTHER -> {<<c>> : c \in LowEdge \cup HighEdge(MAX_UINT64)}

PropInit ==
  /\ \E Shape \in DOMAIN PropBodies :
     \E d \in {AmlParseDefinitionBlock(EmptyHeap, MkBlock(PropBodies[Shape]))} :
     \E v \in PropFields(Shape) :
     \E Operation \in BOOLEAN, Diff \in 1..(PropSpread + 1) :
       /\ heap = PropTree(d.h, d.Root, Shape, v)
       /\ Root = d.Root
       /\ Pure = [Name |-> "Tree", Of |-> Shape,
                  In |-> <<PropNode(d.h, d.Root), Operation, Diff,
                           IF Shape = 2 THEN 1 ELSE 0>>,
                  Out |-> <<>>]
  /\ Block = 0
  /\ Op = Call("Init", EFI_SUCCESS, NULL, NULL)
  /\ Prev = EmptyHeap
  /\ Ser = NoSer
  /\ Steps = 0
  /\ Failed = FALSE
  /\ Freed = FALSE

\* AmlPropagateInformation (Node, Operation, Diff, NodeCount)
PropagateInformation ==
  /\ Pure.Name = "Tree"
  /\ \E r \in {AmlPropagateInformation(heap, Pure.In[1], Pure.In[2], Pure.In[3], Pure.In[4])} :
       /\ heap' = r.h
       /\ Pure' = [Pure EXCEPT !.Name = "AmlPropagateInformation", !.Out = <<r.Status>>]
  /\ Prev' = heap
  /\ UNCHANGED <<Root, Block, Op, Ser, Steps, Failed, Freed>>

PropNext == PropagateInformation

PropSpec == PropInit /\ [][PropNext]_vars

\* The change the call asks for.
Delta(Operation, d) == IF Operation THEN d ELSE -d

\* v + Delta leaves 0..2^w-1, for a v of w = 32 or 64 bits held as above.
LeavesWord(v, Operation, d) ==
  IF Operation THEN v < 0 /\ v + d >= 0 ELSE v >= 0 /\ v - d < 0

\* The integer an integer node stores.
StoredInteger(h, n) == AmlNodeGetIntegerValue(h, n).Value

\* The node the call was made on and its ancestors.
RECURSIVE ChainUp(_, _, _)
ChainUp(h, n, k) ==
  IF n = NULL \/ k = 0 THEN {} ELSE {n} \cup ChainUp(h, h[n].Parent, k - 1)

\* The size integers of the Buffer statements among them.
BufferSizes(h, Chain) ==
  {h[n].FixedArgs[AML_OP_PARSE_INDEX_GET_TERM1 + 1] :
     n \in {c \in Chain : AmlNodeCompareOpCode(h, c, AML_BUFFER_OP, 0)}}

\* C15: the propagation stores no wrapped or clamped value.  Every PkgLen,
\* table Length, Package element count and integer is after the call either
\* what it was or what it was plus or minus the difference asked for, and
\* inside the range of its field (0..2^28-1, 0..2^32-1, 0..255, 0..2^64-1);
\* when the sum lies outside the range for a node the call goes through, the
\* call returns an error and that field is what it was.
PropagationNeverWraps ==
  Pure.Name = "AmlPropagateInformation" =>
    LET Chain == ChainUp(Prev, Pure.In[1], MaxNodes)
        D == Delta(Pure.In[2], Pure.In[3])
        C == Delta(Pure.In[2], Pure.In[4])
    IN \A n \in Allocated(Prev) :
      /\ (IS_AML_OBJECT_NODE(Prev, n) /\ AmlObjectNodeHasAttribute(Prev, n, AML_HAS_PKG_LENGTH)) =>
           /\ heap[n].PkgLen \in 0..MAX_PKG_LEN
           /\ heap[n].PkgLen \in {Prev[n].PkgLen, Prev[n].PkgLen + D}
           /\ (n \in Chain /\ Prev[n].PkgLen + D \notin 0..MAX_PKG_LEN) =>
                EFI_ERROR(Pure.Out[1]) /\ heap[n].PkgLen = Prev[n].PkgLen
      /\ IS_AML_ROOT_NODE(Prev, n) =>
           /\ HeaderLength(heap[n].SdtHeader) \in
                {HeaderLength(Prev[n].SdtHeader), HeaderLength(Prev[n].SdtHeader) + D}
           /\ (n \in Chain /\ LeavesWord(HeaderLength(Prev[n].SdtHeader), Pure.In[2], Pure.In[3])) =>
                /\ EFI_ERROR(Pure.Out[1])
                /\ HeaderLength(heap[n].SdtHeader) = HeaderLength(Prev[n].SdtHeader)
      /\ IsPackageNode(Prev, n) =>
           /\ ElementCount(heap, n) \in 0..MAX_UINT8
           /\ ElementCount(heap, n) \in {ElementCount(Prev, n), ElementCount(Prev, n) + C}
           /\ (n \in Chain /\ ElementCount(Prev, n) + C \notin 0..MAX_UINT8) =>
                EFI_ERROR(Pure.Out[1]) /\ ElementCount(heap, n) = ElementCount(Prev, n)
      /\ IsIntegerNode(Prev, n) =>
           /\ ~EFI_ERROR(AmlNodeGetIntegerValue(heap, n).Status)
           /\ StoredInteger(heap, n) \in {StoredInteger(Prev, n), StoredInteger(Prev, n) + D}
           /\ (/\ n \in BufferSizes(Prev, Chain)
               /\ IF Prev[IntegerDataNode(Prev, n)].Size = 8
                  THEN LeavesWord(StoredInteger(Prev, n), Pure.In[2], Pure.In[3])
                  ELSE StoredInteger(Prev, n) + D < 0) =>
                EFI_ERROR(Pure.Out[1]) /\ StoredInteger(heap, n) = StoredInteger(Prev, n)

\* An increase of a PkgLen that stands at 2^28-1 has been refused.
PropagationRefusedSeen ==
  /\ Pure.Name = "AmlPropagateInformation"
  /\ Pure.Of = 1
  /\ Pure.In[2]
  /\ Prev[Pure.In[1]].PkgLen = MAX_PKG_LEN
  /\ heap[Pure.In[1]].PkgLen = MAX_PKG_LEN
  /\ EFI_ERROR(Pure.Out[1])

\* The call is on the Buffer whose size integer is one byte wide, and the
\* size it asks for needs two bytes.
BufferSizeWidens ==
  /\ Pure.Name = "AmlPropagateInformation"
  /\ Pure.Of = 3
  /\ Pure.In[2]
  /\ StoredInteger(Prev, Prev[Pure.In[1]].FixedArgs[AML_OP_PARSE_INDEX_GET_TERM1 + 1])
       + Pure.In[3] > MAX_UINT8

\* C25: when the propagation makes the size integer of a Buffer grow from 1
\* to 2 bytes, the call succeeds, the integer holds the new size on 2 bytes,
\* and the PkgLen of the Buffer and the Length of the root grow by the
\* difference and by the 1 byte the integer gained.
WidthChangeFolded ==
  BufferSizeWidens =>
    LET Node == Pure.In[1]
        Arg == Prev[Node].FixedArgs[AML_OP_PARSE_INDEX_GET_TERM1 + 1]
        Data == Prev[Arg].FixedArgs[AML_OP_PARSE_INDEX_GET_TERM1 + 1]
    IN /\ Pure.Out[1] = EFI_SUCCESS
       /\ Prev[Data].Size = 1
       /\ heap[Data].Size = 2
       /\ StoredInteger(heap, Arg) = StoredInteger(Prev, Arg) + Pure.In[3]
       /\ AmlNodeCompareOpCode(heap, Arg, AML_WORD_PREFIX, 0)
       /\ heap[Node].PkgLen = Prev[Node].PkgLen + Pure.In[3] + 1
       /\ HeaderLength(heap[Root].SdtHeader)
            = HeaderLength(Prev[Root].SdtHeader) + Pure.In[3] + 1

(***************************************************************************)
(* The decode on its own, on tables it has to refuse                       *)
(***************************************************************************)
\* The longest AML body decoded.
MaxBody == 4
\* ZeroOp, a byte that is no opcode, NameOp (0x08), ScopeOp (0x10), the root
\* character.
DecodeBytes == {0, 2, 8, 16, AML_ROOT_CHAR}
\* The pool slots in use before the decode: none, or all but a few.
PoolsInUse == {0, MaxNodes - 2, MaxNodes - 1}

\* The pool after k calls of AmlCreateDataNode.
RECURSIVE UsedPool(_)
UsedPool(k) ==
  IF k = 0 THEN EmptyHeap
  ELSE AmlCreateDataNode(UsedPool(k - 1), EFI_ACPI_NODE_TYPE_RAW, <<0>>, 0, 1).h

\* Header lengths that leave no room for the header itself.
ShortLengths == {0, SDT_HEADER_SIZE - 1}
\* The Length a table with the body s is given: its size, or a short one, the
\* bytes of s then being what the memory behind the table holds.
DecodeLengths(s) == {SDT_HEADER_SIZE + Len(s)} \cup ShortLengths

DecodeInit ==
  /\ \E k \in PoolsInUse : heap = UsedPool(k)
  /\ \E s \in SeqsUpTo(DecodeBytes, MaxBody) \ {<<>>} :
     \E Length \in DecodeLengths(s) :
       Pure = [Name |-> "Table", Of |-> s, In |-> MkBlockWithLength(s, Length),
               Out |-> <<>>]
  /\ Root = NULL
  /\ Block = 0
  /\ Op = Call("Init", EFI_SUCCESS, NULL, NULL)
  /\ Prev = EmptyHeap
  /\ Ser = NoSer
  /\ Steps = 0
  /\ Failed = FALSE
  /\ Freed = FALSE

\* AmlParseDefinitionBlock (DefinitionBlock, &Root)
DecodeDefinitionBlock ==
  /\ Pure.Name = "Table"
  /\ \E r \in {AmlParseDefinitionBlock(heap, Pure.In)} :
       /\ heap' = r.h
       /\ Root' = r.Root
       /\ Pure' = [Pure EXCEPT !.Name = "AmlParseDefinitionBlock", !.Out = <<r.Status>>]
  /\ Prev' = heap
  /\ UNCHANGED <<Block, Op, Ser, Steps, Failed, Freed>>

DecodeNext == DecodeDefinitionBlock

DecodeSpec == DecodeInit /\ [][DecodeNext]_vars

\* C16: a decode that fails returns no tree and leaves allocated exactly the
\* nodes that were allocated before it began.
FailedDecodeFreesAll ==
  (Pure.Name = "AmlParseDefinitionBlock" /\ EFI_ERROR(Pure.Out[1])) =>
    Root = NULL /\ Allocated(heap) = Allocated(Prev)

\* The turns of the main parser loop of AmlParseDefinitionBlock: for each the
\* offset p in the table AmlParseStatements is called at, where it reads the
\* opcode, the BytesToParse it is given, and the status and Offset it returns.
RECURSIVE DecodeTurns(_, _, _, _, _)
DecodeTurns(h, m, RootNode, p, BytesToParse) ==
  IF BytesToParse = 0 THEN <<>>
  ELSE LET c == AmlParseStatements(h, m, p, BytesToParse)
           a == AmlVarListAddTailInternal(c.h, RootNode, c.Node)
           Turn == [p |-> p, BytesToParse |-> BytesToParse,
                    Status |-> c.Status, Offset |-> c.Offset]
       IN IF EFI_ERROR(c.Status) \/ EFI_ERROR(a.Status) THEN <<Turn>>
          ELSE <<Turn>> \o DecodeTurns(a.h, m, RootNode, p + c.Offset,
                                       BytesToParse - c.Offset)

\* The turns of the decode that has just returned.
TurnsMade ==
  LET r == AmlCreateRootNode(Prev, SubSeq(Pure.In, 1, SDT_HEADER_SIZE))
  IN IF EFI_ERROR(r.Status) THEN <<>>
     ELSE DecodeTurns(r.h, Pure.In, r.Node, SDT_HEADER_SIZE,
                      HeaderLength(SubSeq(Pure.In, 1, SDT_HEADER_SIZE)) - SDT_HEADER_SIZE)

\* C30: AmlParseDefinitionBlock rejects a table whose Length is smaller than
\* 36 without parsing a statement; every statement it parses starts inside
\* the Length bytes of the table, and no statement takes more than the bytes
\* that remain, so that BytesToParse never wraps.
DecodeWithinTable ==
  Pure.Name = "AmlParseDefinitionBlock" =>
    LET Length == HeaderLength(SubSeq(Pure.In, 1, SDT_HEADER_SIZE))
    IN /\ ULt(Length, SDT_HEADER_SIZE) => (EFI_ERROR(Pure.Out[1]) /\ TurnsMade = <<>>)
       /\ \A i \in DOMAIN TurnsMade :
            /\ ULt(TurnsMade[i].p, Length)
            /\ ~EFI_ERROR(TurnsMade[i].Status) =>
                 ULe(TurnsMade[i].Offset, TurnsMade[i].BytesToParse)

====
